---------------------------- MODULE Spec2Model ----------------------------
(***************************************************************************)
(* Model of the AI workflow-generation plugins of backstage-idp2:          *)
(*   - generatePipelineYAML (openaiUtil.ts): the call to the chat          *)
(*     completion service and the post-processing of its answer;           *)
(*   - the ai:generate-pipeline scaffolder action that calls it;           *)
(*   - the ai:generate-template scaffolder action (aiTemplateGeneration.ts)*)
(*     with its JSON cleaning, repair, validation and fallback.            *)
(*                                                                         *)
(* Text is a sequence of atoms.  An atom is one character ("{", "\"", a    *)
(* newline, ...) or a word that every regular expression of the source     *)
(* reads as a whole ("echo", "env.PROJECT_ID", a code fence, ...).  The    *)
(* atom "a" stands for any other text without white space.                 *)
(***************************************************************************)
EXTENDS Integers, Sequences, FiniteSets, TLC

\* ----------------------------------------------------------------- atoms
SP == " "
NL == "NL"
TAB == "TAB"
DQ == "DQ"
BS == "BS"
FENCE == "FENCE"

\* JavaScript's \s, as far as the atoms go.
IsWs(c) == c \in {SP, NL, TAB}

\* ------------------------------------------------------- string helpers
\* s.substring(i - 1, j) in 1-based positions; empty when j < i.
Sub(s, i, j) == IF j < i THEN << >> ELSE SubSeq(s, i, j)

\* Whether the literal p occurs in s at position i.
OccursAt(s, p, i) ==
  /\ i >= 1
  /\ i + Len(p) - 1 <= Len(s)
  /\ \A k \in 1..Len(p) : s[i + k - 1] = p[k]

Contains(s, p) == \E i \in 1..(Len(s) + 1) : OccursAt(s, p, i)

\* s.replace(/p/g, r) for a literal, non-empty p: the leftmost match is replaced, and
\* the search goes on after it.
RECURSIVE ReplaceAll(_, _, _)
ReplaceAll(s, p, r) ==
  LET at == {i \in 1..Len(s) : OccursAt(s, p, i)}
  IN IF at = {} THEN s
     ELSE LET i == CHOOSE i \in at : \A k \in at : i <= k
          IN Sub(s, 1, i - 1) \o r \o ReplaceAll(Sub(s, i + Len(p), Len(s)), p, r)

\* The first position at or after i that holds no white space (Len(s) + 1 at the end):
\* where a greedy \s* that starts at i stops.
SkipWs(s, i) ==
  IF \E j \in i..Len(s) : ~IsWs(s[j])
  THEN CHOOSE j \in i..Len(s) : ~IsWs(s[j]) /\ \A k \in i..(j - 1) : IsWs(s[k])
  ELSE IF i > Len(s) THEN i ELSE Len(s) + 1

TrimStart(s) == Sub(s, SkipWs(s, 1), Len(s))

TrimEnd(s) ==
  IF \E j \in 1..Len(s) : ~IsWs(s[j])
  THEN Sub(s, 1, CHOOSE j \in 1..Len(s) :
                   ~IsWs(s[j]) /\ \A k \in (j + 1)..Len(s) : IsWs(s[k]))
  ELSE << >>

\* String.prototype.trim
Trim(s) == TrimEnd(TrimStart(s))

\* The lines of s (its maximal stretches without a newline), in order.
RECURSIVE SplitLines(_)
SplitLines(s) ==
  IF \A k \in 1..Len(s) : s[k] # NL THEN <<s>>
  ELSE LET n == CHOOSE k \in 1..Len(s) : s[k] = NL /\ \A m \in 1..(k - 1) : s[m] # NL
       IN <<Sub(s, 1, n - 1)>> \o SplitLines(Sub(s, n + 1, Len(s)))

\* ls.join(sep)
RECURSIVE JoinWith(_, _)
JoinWith(ls, sep) ==
  IF Len(ls) = 0 THEN << >>
  ELSE IF Len(ls) = 1 THEN ls[1]
  ELSE LET half == Len(ls) \div 2
       IN JoinWith(Sub(ls, 1, half), sep) \o sep \o JoinWith(Sub(ls, half + 1, Len(ls)), sep)

JoinLines(ls) == JoinWith(ls, <<NL>>)

\* All sequences over S of length at most n.
SeqsUpTo(S, n) == UNION {[1..k -> S] : k \in 0..n}


\* ================================================= openaiUtil.ts, lines 51-72
SQ == "'"
Echo == "echo"
ProjectIdAssign == "PROJECT_ID="
RegionAssign == "REGION="
AppendOp == ">>"
Dollar == "$"
GithubEnv == "GITHUB_ENV"
LB == "{"
RB == "}"
EnvProjectId == "env.PROJECT_ID"
EnvRegion == "env.REGION"
EnvOther == "env.OTHER"
SecretProjectId == "secrets.GCP_PROJECT_ID"
SecretRegion == "secrets.GCP_REGION"
Yaml == "yaml"
Yml == "yml"

\* ${{ <atom> }} as the prompt and the replacement strings spell it.
Ref(atom) == <<Dollar, LB, LB, SP, atom, SP, RB, RB>>

\* The atoms that env\.[A-Z_]+ matches.
EnvAtoms == {EnvProjectId, EnvRegion, EnvOther}

\* content.replace(/```yaml/g, '').replace(/```/g, '').trim()
RemoveMarkdownFences(content) ==
  Trim(ReplaceAll(ReplaceAll(content, <<FENCE, Yaml>>, << >>), <<FENCE>>, << >>))

\* /echo\s+["']?PROJECT_ID=.*>>\s*\$GITHUB_ENV/i.test(content)
\* (. matches no newline; \s does)
TestProjectIdExport(content) ==
  \E i \in 1..Len(content) :
    /\ content[i] = Echo
    /\ i + 1 <= Len(content) /\ IsWs(content[i + 1])
    /\ LET j == SkipWs(content, i + 1)
           k == IF j <= Len(content) /\ content[j] \in {DQ, SQ} THEN j + 1 ELSE j
       IN /\ k <= Len(content) /\ content[k] = ProjectIdAssign
          /\ \E m \in (k + 1)..Len(content) :
               /\ content[m] = AppendOp
               /\ \A x \in (k + 1)..(m - 1) : content[x] # NL
               /\ LET n == SkipWs(content, m + 1)
                  IN OccursAt(content, <<Dollar, GithubEnv>>, n)

\* Whether /^.*echo.*GITHUB_ENV.*$/im matches the line.
EchoEnvLine(line) ==
  \E i \in 1..Len(line) : \E j \in (i + 1)..Len(line) :
    line[i] = Echo /\ line[j] = GithubEnv

\* content.replace(/^.*echo.*GITHUB_ENV.*$/gim, ''): the text of each such line goes,
\* its line break stays.
StripEchoLines(content) ==
  LET ls == SplitLines(content)
  IN JoinLines([k \in 1..Len(ls) |-> IF EchoEnvLine(ls[k]) THEN << >> ELSE ls[k]])

\* Lines 61-64: the strip runs only when the PROJECT_ID test matches.
EnforceNoEnvExport(content) ==
  IF TestProjectIdExport(content) THEN StripEchoLines(content) ELSE content

\* Whether \${{\s*<atom>\s*}} matches at position i; the position after the match, or 0.
EnvRefEnd(content, atoms, i) ==
  IF ~OccursAt(content, <<Dollar, LB, LB>>, i) THEN 0
  ELSE LET j == SkipWs(content, i + 3)
       IN IF j <= Len(content) /\ content[j] \in atoms
             /\ OccursAt(content, <<RB, RB>>, SkipWs(content, j + 1))
          THEN SkipWs(content, j + 1) + 2
          ELSE 0

\* /\${{\s*env\.[A-Z_]+\s*}}/i.test(content)
TestEnvRef(content) ==
  \E i \in 1..Len(content) : EnvRefEnd(content, EnvAtoms, i) # 0

\* content.replace(/\${{\s*env\.NAME\s*}}/g, '${{ secrets.GCP_NAME }}')
RECURSIVE ReplaceEnv(_, _, _)
ReplaceEnv(content, atom, secret) ==
  LET at == {i \in 1..Len(content) : EnvRefEnd(content, {atom}, i) # 0}
  IN IF at = {} THEN content
     ELSE LET i == CHOOSE i \in at : \A k \in at : i <= k
          IN Sub(content, 1, i - 1) \o Ref(secret)
               \o ReplaceEnv(Sub(content, EnvRefEnd(content, {atom}, i), Len(content)),
                             atom, secret)

\* Variant of FixEnvVars: the two replacements match only the spelling with one space
\* on each side of the name (the \s* of lines 68-69 left out).
FixEnvVars_ExactSpacing(content) ==
  IF TestEnvRef(content)
  THEN ReplaceAll(ReplaceAll(content, Ref(EnvProjectId), Ref(SecretProjectId)),
                  Ref(EnvRegion), Ref(SecretRegion))
  ELSE content

\* Lines 66-70.
FixEnvVars(content) ==
  IF TestEnvRef(content)
  THEN ReplaceEnv(ReplaceEnv(content, EnvProjectId, SecretProjectId),
                  EnvRegion, SecretRegion)
  ELSE content

\* Lines 54-72: what generatePipelineYAML returns for the message content.
PostProcess(content) == FixEnvVars(EnforceNoEnvExport(RemoveMarkdownFences(content)))


\* ====================================== aiTemplateGeneration.ts, lines 96-156
Colon == ":"
Comma == ","
LK == "["
RK == "]"
Json == "json"
LetterN == "n"
LetterT == "t"
Null == "null"
One == "1"
Zero == "0"
KTemplate == "templateContent"
KWorkflow == "workflowContent"
KFileName == "workflowFileName"
KParameters == "parameters"

\* --- JSON values: kind k, the characters s of a string (or the literal of a
\* number), the elements of an array or the members of an object in items.
Val(k, s, items) == [k |-> k, s |-> s, items |-> items]
Str(s) == Val("str", s, << >>)
Undefined == Val("undefined", << >>, << >>)
Member(key, val) == [key |-> key, val |-> val]

\* --- JSON.parse.  A parse step answers with ok, the value and the next position.
Parsed(v, i) == [ok |-> TRUE, val |-> v, pos |-> i]
SyntaxError == [ok |-> FALSE, val |-> Undefined, pos |-> 0]

\* The character an escape stands for: \" \\ \n \t.
Unescaped(c) ==
  IF c = LetterN THEN NL ELSE IF c = LetterT THEN TAB ELSE c

RECURSIVE ParseString(_, _, _)
RECURSIVE ParseValue(_, _)
RECURSIVE ParseMembers(_, _, _, _)
RECURSIVE ParseElements(_, _, _, _)

\* After the opening quote: up to the closing quote.  A raw newline or tab inside a
\* string and an unknown escape are syntax errors.
ParseString(s, i, acc) ==
  IF i > Len(s) THEN SyntaxError
  ELSE IF s[i] = DQ THEN Parsed(Str(acc), i + 1)
  ELSE IF s[i] = BS
       THEN IF i + 1 <= Len(s) /\ s[i + 1] \in {DQ, BS, LetterN, LetterT}
            THEN ParseString(s, i + 2, Append(acc, Unescaped(s[i + 1])))
            ELSE SyntaxError
  ELSE IF s[i] \in {NL, TAB} THEN SyntaxError
  ELSE ParseString(s, i + 1, Append(acc, s[i]))

ParseValue(s, i) ==
  LET j == SkipWs(s, i)
  IN IF j > Len(s) THEN SyntaxError
     ELSE IF s[j] = DQ THEN ParseString(s, j + 1, << >>)
     ELSE IF s[j] = LB THEN ParseMembers(s, j + 1, << >>, TRUE)
     ELSE IF s[j] = LK THEN ParseElements(s, j + 1, << >>, TRUE)
     ELSE IF s[j] = Null THEN Parsed(Val("null", << >>, << >>), j + 1)
     ELSE IF s[j] \in {One, Zero} THEN Parsed(Val("num", <<s[j]>>, << >>), j + 1)
     ELSE SyntaxError

\* After "{" (first) or after a comma: the members up to the closing "}".
ParseMembers(s, i, acc, first) ==
  LET j == SkipWs(s, i)
  IN IF j > Len(s) THEN SyntaxError
     ELSE IF first /\ s[j] = RB THEN Parsed(Val("obj", << >>, acc), j + 1)
     ELSE IF s[j] # DQ THEN SyntaxError
     ELSE LET key == ParseString(s, j + 1, << >>)
              c == SkipWs(s, key.pos)
          IN IF ~key.ok \/ c > Len(s) \/ s[c] # Colon THEN SyntaxError
             ELSE LET v == ParseValue(s, c + 1)
                      e == SkipWs(s, v.pos)
                      members == Append(acc, Member(key.val.s, v.val))
                  IN IF ~v.ok \/ e > Len(s) THEN SyntaxError
                     ELSE IF s[e] = RB THEN Parsed(Val("obj", << >>, members), e + 1)
                     ELSE IF s[e] = Comma THEN ParseMembers(s, e + 1, members, FALSE)
                     ELSE SyntaxError

\* After "[" (first) or after a comma: the elements up to the closing "]".
ParseElements(s, i, acc, first) ==
  LET j == SkipWs(s, i)
  IN IF j > Len(s) THEN SyntaxError
     ELSE IF first /\ s[j] = RK THEN Parsed(Val("arr", << >>, acc), j + 1)
     ELSE LET v == ParseValue(s, j)
              e == SkipWs(s, v.pos)
          IN IF ~v.ok \/ e > Len(s) THEN SyntaxError
             ELSE IF s[e] = RK THEN Parsed(Val("arr", << >>, Append(acc, v.val)), e + 1)
             ELSE IF s[e] = Comma THEN ParseElements(s, e + 1, Append(acc, v.val), FALSE)
             ELSE SyntaxError

\* JSON.parse(text): ok is FALSE where it throws a SyntaxError.
JsonParse(text) ==
  LET r == ParseValue(text, 1)
  IN IF r.ok /\ SkipWs(text, r.pos) > Len(text) THEN r ELSE SyntaxError

\* obj[key]: the last member with that key, undefined without one.
RECURSIVE Lookup(_, _)
Lookup(members, key) ==
  IF members = << >> THEN Undefined
  ELSE IF members[Len(members)].key = <<key>> THEN members[Len(members)].val
  ELSE Lookup(Sub(members, 1, Len(members) - 1), key)

\* JavaScript's truthiness, as !value reads it.
Truthy(v) ==
  IF v.k = "str" THEN v.s # << >>
  ELSE IF v.k = "num" THEN v.s # <<Zero>>
  ELSE v.k \in {"arr", "obj"}

\* --- Lines 96-105: trim, then the four fence replacements.
\* .replace(/^```json\s*/, '')
StripJsonFence(s) ==
  IF OccursAt(s, <<FENCE, Json>>, 1) THEN Sub(s, SkipWs(s, 3), Len(s)) ELSE s

\* .replace(/^```\s*/, '')
StripOpeningFence(s) ==
  IF OccursAt(s, <<FENCE>>, 1) THEN Sub(s, SkipWs(s, 2), Len(s)) ELSE s

\* .replace(/\s*```$/, '')
StripClosingFence(s) ==
  IF s # << >> /\ s[Len(s)] = FENCE THEN TrimEnd(Sub(s, 1, Len(s) - 1)) ELSE s

CleanResponse(responseText) ==
  StripClosingFence(StripOpeningFence(StripClosingFence(StripJsonFence(Trim(responseText)))))

\* --- Lines 107-115.  indexOf / lastIndexOf in 1-based positions, 0 for -1.
IndexOf(s, c) ==
  IF \E i \in 1..Len(s) : s[i] = c
  THEN CHOOSE i \in 1..Len(s) : s[i] = c /\ \A k \in 1..(i - 1) : s[k] # c
  ELSE 0

LastIndexOf(s, c) ==
  IF \E i \in 1..Len(s) : s[i] = c
  THEN CHOOSE i \in 1..Len(s) : s[i] = c /\ \A k \in (i + 1)..Len(s) : s[k] # c
  ELSE 0

\* Line 111: whether 'No valid JSON object found in response' is thrown.
NoJsonObject(cleaned) ==
  LET firstBrace == IndexOf(cleaned, LB)
      lastBrace == LastIndexOf(cleaned, RB)
  IN firstBrace = 0 \/ lastBrace = 0 \/ lastBrace <= firstBrace

\* Line 115: cleanedResponse.substring(firstBrace, lastBrace + 1)
JsonCandidate(cleaned) == Sub(cleaned, IndexOf(cleaned, LB), LastIndexOf(cleaned, RB))

\* --- Lines 127-133: the three repairs.
\* The next quote at or after i, 0 without one.
NextQuote(s, i) ==
  IF \E j \in i..Len(s) : s[j] = DQ
  THEN CHOOSE j \in i..Len(s) : s[j] = DQ /\ \A k \in i..(j - 1) : s[k] # DQ
  ELSE 0

\* .replace(/"([^"]*?)\n([^"]*?)"/g, '"$1\\n$2"'): from a quote to the next quote,
\* the first raw newline between them becomes backslash n.
RECURSIVE FixNewlines(_)
FixNewlines(s) ==
  LET Between(i) == Sub(s, i + 1, NextQuote(s, i + 1) - 1)
      at == {i \in 1..Len(s) :
               s[i] = DQ /\ NextQuote(s, i + 1) # 0 /\ IndexOf(Between(i), NL) # 0}
  IN IF at = {} THEN s
     ELSE LET i == CHOOSE i \in at : \A k \in at : i <= k
              j == NextQuote(s, i + 1)
              n == IndexOf(Between(i), NL)
          IN Sub(s, 1, i) \o Sub(Between(i), 1, n - 1) \o <<BS, LetterN>>
               \o Sub(Between(i), n + 1, Len(Between(i))) \o <<DQ>>
               \o FixNewlines(Sub(s, j + 1, Len(s)))

\* .replace(/([^\\])"/g, '$1\\"'): a quote after anything but a backslash gets one.
RECURSIVE FixQuotes(_)
FixQuotes(s) ==
  LET at == {i \in 1..(Len(s) - 1) : s[i] # BS /\ s[i + 1] = DQ}
  IN IF at = {} THEN s
     ELSE LET i == CHOOSE i \in at : \A k \in at : i <= k
          IN Sub(s, 1, i) \o <<BS, DQ>> \o FixQuotes(Sub(s, i + 2, Len(s)))

\* .replace(/,(\s*[}\]])/g, '$1'): a comma before a closing bracket goes.
RECURSIVE FixTrailingCommas(_)
FixTrailingCommas(s) ==
  LET Closer(i) == SkipWs(s, i + 1)
      at == {i \in 1..Len(s) :
               s[i] = Comma /\ Closer(i) <= Len(s) /\ s[Closer(i)] \in {RB, RK}}
  IN IF at = {} THEN s
     ELSE LET i == CHOOSE i \in at : \A k \in at : i <= k
          IN Sub(s, 1, i - 1) \o Sub(s, i + 1, Closer(i))
               \o FixTrailingCommas(Sub(s, Closer(i) + 1, Len(s)))

\* Lines 127-133.
FixedResponse(cleaned) == FixTrailingCommas(FixQuotes(FixNewlines(cleaned)))

\* Lines 117-136: parse, and on a SyntaxError parse the repaired text once.
ParseWithRepair(candidate) ==
  LET parsed == JsonParse(candidate)
  IN IF parsed.ok THEN parsed ELSE JsonParse(FixedResponse(candidate))

\* Variant of MissingRequiredFields: workflowFileName is not checked.
MissingRequiredFields_NoFileName(parsedResult) ==
  \/ ~Truthy(Lookup(parsedResult.items, KTemplate))
  \/ ~Truthy(Lookup(parsedResult.items, KWorkflow))

\* Lines 139-145: whether 'Generated response missing required fields' is thrown.
MissingRequiredFields(parsedResult) ==
  \/ ~Truthy(Lookup(parsedResult.items, KTemplate))
  \/ ~Truthy(Lookup(parsedResult.items, KWorkflow))
  \/ ~Truthy(Lookup(parsedResult.items, KFileName))

\* .replace(/\\n/g, '\n').replace(/\\t/g, '\t')   (lines 146-151)
UnescapeNewlinesTabs(s) ==
  ReplaceAll(ReplaceAll(s, <<BS, LetterN>>, <<NL>>), <<BS, LetterT>>, <<TAB>>)

Output(name, value) == [name |-> name, value |-> value]

\* Variant of SuccessOutputs: the workflow content goes through the two repairs of
\* generatePipelineYAML before it is emitted.
SuccessOutputs_Repaired(parsedResult) ==
  << Output(KTemplate, Str(UnescapeNewlinesTabs(Lookup(parsedResult.items, KTemplate).s))),
     Output(KWorkflow,
            Str(FixEnvVars(EnforceNoEnvExport(
                  UnescapeNewlinesTabs(Lookup(parsedResult.items, KWorkflow).s))))),
     Output(KFileName, Lookup(parsedResult.items, KFileName)),
     Output(KParameters,
            IF Truthy(Lookup(parsedResult.items, KParameters))
            THEN Lookup(parsedResult.items, KParameters)
            ELSE Val("arr", << >>, << >>)) >>

\* Lines 153-156.
SuccessOutputs(parsedResult) ==
  << Output(KTemplate, Str(UnescapeNewlinesTabs(Lookup(parsedResult.items, KTemplate).s))),
     Output(KWorkflow, Str(UnescapeNewlinesTabs(Lookup(parsedResult.items, KWorkflow).s))),
     Output(KFileName, Lookup(parsedResult.items, KFileName)),
     Output(KParameters,
            IF Truthy(Lookup(parsedResult.items, KParameters))
            THEN Lookup(parsedResult.items, KParameters)
            ELSE Val("arr", << >>, << >>)) >>

\* Variant of TemplateTry: templateContent is emitted as soon as the envelope is
\* parsed, so a later throw leaves an output behind.
TemplateTry_EmitAsParsed(result) ==
  IF result.kind # "text" THEN [threw |-> TRUE, outs |-> << >>]
  ELSE LET cleaned == CleanResponse(result.text)
           parsed == ParseWithRepair(JsonCandidate(cleaned))
       IN IF NoJsonObject(cleaned) \/ ~parsed.ok
          THEN [threw |-> TRUE, outs |-> << >>]
          ELSE IF Lookup(parsed.val.items, KTemplate).k # "str"
          THEN [threw |-> TRUE, outs |-> << >>]
          ELSE IF MissingRequiredFields(parsed.val)
                  \/ Lookup(parsed.val.items, KWorkflow).k # "str"
          THEN [threw |-> TRUE,
                outs |-> << Output(KTemplate, Lookup(parsed.val.items, KTemplate)) >>]
          ELSE [threw |-> FALSE, outs |-> SuccessOutputs(parsed.val)]

\* Variant of TemplateTry: text without a JSON object, or one that still does not
\* parse after the repair, is emitted as it is (as plain workflow content).
TemplateTry_PlainYaml(result) ==
  IF result.kind # "text" THEN [threw |-> TRUE, outs |-> << >>]
  ELSE LET cleaned == CleanResponse(result.text)
           parsed == ParseWithRepair(JsonCandidate(cleaned))
           yaml == [threw |-> FALSE,
                    outs |-> << Output(KTemplate, Str(<< >>)),
                                Output(KWorkflow, Str(cleaned)),
                                Output(KFileName, Str(<< >>)),
                                Output(KParameters, Val("arr", << >>, << >>)) >>]
       IN IF NoJsonObject(cleaned) \/ ~parsed.ok THEN yaml
          ELSE IF MissingRequiredFields(parsed.val)
                  \/ \E key \in {KTemplate, KWorkflow} :
                       Lookup(parsed.val.items, key).k # "str"
          THEN [threw |-> TRUE, outs |-> << >>]
          ELSE [threw |-> FALSE, outs |-> SuccessOutputs(parsed.val)]

\* What the try block (lines 72-160) does with the generation call's outcome:
\* whether it threw, and the outputs it had emitted by then.
Threw == [threw |-> TRUE, outs |-> << >>]
TemplateTry(result) ==
  IF result.kind # "text" THEN Threw                \* the call or response.text() threw
  ELSE LET cleaned == CleanResponse(result.text)
       IN IF NoJsonObject(cleaned) THEN Threw
          ELSE LET parsed == ParseWithRepair(JsonCandidate(cleaned))
               IN IF ~parsed.ok THEN Threw
                  ELSE IF MissingRequiredFields(parsed.val) THEN Threw
                  ELSE IF \E key \in {KTemplate, KWorkflow} :
                            Lookup(parsed.val.items, key).k # "str"
                       THEN Threw                    \* .replace is not a function
                  ELSE [threw |-> FALSE, outs |-> SuccessOutputs(parsed.val)]

\* --- Lines 165-225: the fallback.
\* lines.join('\\n'): the separator is a backslash and the letter n.
JoinEscaped(ls) == JoinWith(ls, <<BS, LetterN>>)

\* Lines 165-203.
FallbackTemplate(input) ==
  JoinEscaped(<<
    <<"apiVersion: scaffolder.backstage.io/v1beta3">>,
    <<"kind: Template">>,
    <<"metadata:">>,
    <<"  name: ", input.templateName>>,
    <<"  title: ", input.templateTitle>>,
    <<"  description: ",
      IF input.templateDescription # "" THEN input.templateDescription
      ELSE "AI-generated template">>,
    <<"  tags:">>,
    <<"    - ", input.infrastructureType>>,
    <<"    - ai-generated">>,
    <<"spec:">>,
    <<"  owner: platform-team">>,
    <<"  type: infrastructure">>,
    <<"  parameters:">>,
    <<"    - title: Configuration">>,
    <<"      required:">>,
    <<"        - resourceName">>,
    <<"      properties:">>,
    <<"        resourceName:">>,
    <<"          title: Resource Name">>,
    <<"          type: string">>,
    <<"          description: Name of the resource to create">>,
    <<"  steps:">>,
    <<"    - id: trigger-workflow">>,
    <<"      name: Trigger GitHub Workflow">>,
    <<"      action: github:workflows:dispatch">>,
    <<"      input:">>,
    <<"        repoUrl: https://github.com/", input.workflowRepo>>,
    <<"        workflowPath: ", input.templateName, ".yml">>,
    <<"        branchOrTagName: master">>,
    <<"        workflowInputs:">>,
    <<"          resourceName: ${{ parameters.resourceName }}">>,
    <<"  output:">>,
    <<"    links:">>,
    <<"      - title: View Workflow">>,
    <<"        url: https://github.com/", input.workflowRepo, "/actions">> >>)

\* Lines 205-220.
FallbackWorkflow(input) ==
  JoinEscaped(<<
    <<"name: ", input.templateTitle>>,
    <<"on:">>,
    <<"  workflow_dispatch:">>,
    <<"    inputs:">>,
    <<"      resourceName:">>,
    <<"        description: ", DQ, "Resource Name", DQ>>,
    <<"        required: true">>,
    <<"        type: string">>,
    <<"jobs:">>,
    <<"  provision:">>,
    <<"    runs-on: ubuntu-latest">>,
    <<"    steps:">>,
    <<"      - name: Provision Resource">>,
    <<"        run: echo ", DQ, "Provisioning ${{ github.event.inputs.resourceName }}", DQ>> >>)

\* Lines 222-225.
FallbackOutputs(input) ==
  << Output(KTemplate, Str(FallbackTemplate(input))),
     Output(KWorkflow, Str(FallbackWorkflow(input))),
     Output(KFileName, Str(<<input.templateName, ".yml">>)),
     Output(KParameters, Val("arr", << >>, <<Str(<<"resourceName">>)>>)) >>

\* ======================================================== detectProject.ts
\* A file or directory name is a sequence of atoms too: "app.test.js" is
\* <<"app", ".", "test", ".js">>, ".venv" is <<".", "v", "env">>, and a name that no
\* test of the source looks into is one atom (<<"package.json">>).

\* --- The file system as detectProject sees it.  An entry of a directory: its name;
\* kind "file", "dir" or "broken" (fs.statSync throws on it); readable: whether
\* fs.readFileSync (file) or fs.readdirSync (dir) succeeds; the entries of a
\* directory in the order readdirSync lists them; the text of a file.
Entry(name, kind, readable, items, content) ==
  [name |-> name, kind |-> kind, readable |-> readable, items |-> items,
   content |-> content]

\* fs.readdirSync(repoPath) of line 20: the names, in order.
Files(root) == [i \in 1..Len(root.items) |-> root.items[i].name]

\* files.includes('<name>')
Includes(files, name) == \E i \in 1..Len(files) : files[i] = <<name>>

\* file.endsWith('<ext>')
EndsWith(file, ext) == file # << >> /\ file[Len(file)] = ext

\* item.includes('<word>') for a word that is one atom
NameIncludes(item, word) == \E k \in 1..Len(item) : item[k] = word

\* fs.readFileSync(path.join(repoPath, name), 'utf8'): ok is FALSE where it throws.
ReadFileSync(root, name) ==
  LET e == root.items[CHOOSE i \in 1..Len(root.items) : root.items[i].name = <<name>>]
  IN [ok |-> e.kind = "file" /\ e.readable, text |-> e.content]

\* --- Lines 33-55: the Node.js branch.
EmptyObject == Val("obj", << >>, << >>)

\* value.key of a parsed JSON value; undefined on anything but an object.
Prop(v, key) == IF v.k = "obj" THEN Lookup(v.items, key) ELSE Undefined

\* value || {}
OrEmptyObject(v) == IF Truthy(v) THEN v ELSE EmptyObject

\* value || ''
OrEmptyString(v) == IF Truthy(v) THEN v ELSE Str(<< >>)

\* dependencies['<name>'] read as a condition
Declared(deps, name) == Truthy(Prop(deps, name))

\* Lines 42-48.
NodeFramework(dependencies, devDependencies) ==
  IF Declared(dependencies, "react") \/ Declared(devDependencies, "react") THEN "React"
  ELSE IF Declared(dependencies, "vue") \/ Declared(devDependencies, "vue") THEN "Vue.js"
  ELSE IF Declared(dependencies, "angular") \/ Declared(devDependencies, "angular")
       THEN "Angular"
  ELSE IF Declared(dependencies, "next") \/ Declared(devDependencies, "next") THEN "Next.js"
  ELSE IF Declared(dependencies, "express") \/ Declared(devDependencies, "express")
       THEN "Express.js"
  ELSE IF Declared(dependencies, "nestjs") \/ Declared(devDependencies, "nestjs")
       THEN "NestJS"
  ELSE IF Declared(dependencies, "@backstage/core-components") THEN "Backstage"
  ELSE ""

\* Lines 51-54.
NodeBuildTool(files, dependencies) ==
  IF Includes(files, "webpack.config.js") THEN "Webpack"
  ELSE IF Includes(files, "vite.config.js") \/ Includes(files, "vite.config.ts") THEN "Vite"
  ELSE IF Includes(files, "rollup.config.js") THEN "Rollup"
  ELSE IF Declared(dependencies, "@parcel/core") THEN "Parcel"
  ELSE ""

\* What a detection branch leaves in the locals of lines 23-30.
Detected(type, framework, buildTool, dependencies, devDependencies, scripts, nodeVersion) ==
  [threw |-> FALSE, type |-> type, framework |-> framework, buildTool |-> buildTool,
   dependencies |-> dependencies, devDependencies |-> devDependencies,
   scripts |-> scripts, nodeVersion |-> nodeVersion]

\* An exception left the branch: nothing catches it in detectProject.
DetectThrew ==
  [threw |-> TRUE, type |-> "", framework |-> "", buildTool |-> "",
   dependencies |-> EmptyObject, devDependencies |-> EmptyObject,
   scripts |-> EmptyObject, nodeVersion |-> Str(<< >>)]

\* Lines 35-54, from the result of JSON.parse on: JSON.parse throws, and so does
\* pkg.dependencies on null.
FromPackage(files, parsed) ==
  IF ~parsed.ok THEN DetectThrew
  ELSE IF parsed.val.k = "null" THEN DetectThrew
  ELSE LET dependencies == OrEmptyObject(Prop(parsed.val, "dependencies"))
           devDependencies == OrEmptyObject(Prop(parsed.val, "devDependencies"))
       IN Detected("nodejs",
                   NodeFramework(dependencies, devDependencies),
                   NodeBuildTool(files, dependencies),
                   dependencies, devDependencies,
                   OrEmptyObject(Prop(parsed.val, "scripts")),
                   OrEmptyString(Prop(Prop(parsed.val, "engines"), "node")))

\* Lines 34-54.  fs.readFileSync throws on a file that cannot be read.
NodeBranch(root) ==
  IF ~ReadFileSync(root, "package.json").ok THEN DetectThrew
  ELSE FromPackage(Files(root), JsonParse(ReadFileSync(root, "package.json").text))

\* --- Lines 58-81: the Python branch.
\* s.split(/[==>=<]/): the character class holds "=", ">" and "<", and every single
\* one of them separates two pieces.
RECURSIVE SplitOn(_, _)
SplitOn(s, seps) ==
  IF \A k \in 1..Len(s) : s[k] \notin seps THEN <<s>>
  ELSE LET n == CHOOSE k \in 1..Len(s) : s[k] \in seps /\ \A m \in 1..(k - 1) : s[m] \notin seps
       IN <<Sub(s, 1, n - 1)>> \o SplitOn(Sub(s, n + 1, Len(s)), seps)

\* Lines 65-66: const [name, version] = line.split(...); the entry of the line.
ParseRequirement(line) ==
  LET pieces == SplitOn(line, {"=", ">", "<"})
      name == pieces[1]
      version == IF Len(pieces) >= 2 THEN Trim(pieces[2]) ELSE << >>
  IN Member(Trim(name), Str(IF version # << >> THEN version ELSE <<"latest">>))

\* Lines 62-68: split('\n'), filter(Boolean), map, Object.fromEntries (a later entry
\* of the same name replaces an earlier one, as Lookup reads the members).
PythonDependencies(text) ==
  LET reqs == SelectSeq(SplitLines(text), LAMBDA line : line # << >>)
  IN Val("obj", << >>, [i \in 1..Len(reqs) |-> ParseRequirement(reqs[i])])

\* Lines 72-75.
PythonFramework(dependencies) ==
  IF Declared(dependencies, "django") \/ Declared(dependencies, "Django") THEN "Django"
  ELSE IF Declared(dependencies, "flask") \/ Declared(dependencies, "Flask") THEN "Flask"
  ELSE IF Declared(dependencies, "fastapi") \/ Declared(dependencies, "FastAPI")
       THEN "FastAPI"
  ELSE IF Declared(dependencies, "streamlit") THEN "Streamlit"
  ELSE ""

\* Variant of PythonBuildTool: where no Python build file is found, the build tool
\* of the Node.js branch is looked for.
PythonBuildTool_AnyConfig(files) ==
  IF Includes(files, "pyproject.toml") THEN "Poetry/setuptools"
  ELSE IF Includes(files, "setup.py") THEN "setuptools"
  ELSE IF Includes(files, "Pipfile") THEN "Pipenv"
  ELSE NodeBuildTool(files, EmptyObject)

\* Lines 78-80.
PythonBuildTool(files) ==
  IF Includes(files, "pyproject.toml") THEN "Poetry/setuptools"
  ELSE IF Includes(files, "setup.py") THEN "setuptools"
  ELSE IF Includes(files, "Pipfile") THEN "Pipenv"
  ELSE ""

\* Lines 59-80.
PythonBranch(root) ==
  LET hasReqs == Includes(Files(root), "requirements.txt")
      file == ReadFileSync(root, "requirements.txt")
      dependencies == IF hasReqs THEN PythonDependencies(file.text) ELSE EmptyObject
  IN IF hasReqs /\ ~file.ok THEN DetectThrew
     ELSE Detected("python", PythonFramework(dependencies), PythonBuildTool(Files(root)),
                   dependencies, EmptyObject, EmptyObject, Str(<< >>))

\* Variant of Labelled: the framework label is stored as the type.
Labelled_FrameworkAsType(type, framework, buildTool) ==
  Detected(framework, framework, buildTool, EmptyObject, EmptyObject, EmptyObject,
           Str(<< >>))

\* A branch that sets type, framework and buildTool only (lines 84-105).
Labelled(type, framework, buildTool) ==
  Detected(type, framework, buildTool, EmptyObject, EmptyObject, EmptyObject, Str(<< >>))

\* Variant of Detection: the Java markers are tested before the .NET markers.
Detection_JavaFirst(root) ==
  LET files == Files(root)
  IN IF Includes(files, "package.json") THEN NodeBranch(root)
     ELSE IF Includes(files, "requirements.txt") \/ Includes(files, "pyproject.toml")
             \/ Includes(files, "setup.py")
          THEN PythonBranch(root)
     ELSE IF Includes(files, "pom.xml") THEN Labelled("java", "Maven", "Maven")
     ELSE IF Includes(files, "build.gradle") \/ Includes(files, "build.gradle.kts")
          THEN Labelled("java", "Gradle", "Gradle")
     ELSE IF \E i \in 1..Len(files) :
               EndsWith(files[i], ".csproj") \/ EndsWith(files[i], ".sln")
          THEN Labelled(".net", "ASP.NET Core", "dotnet")
     ELSE IF Includes(files, "go.mod") THEN Labelled("go", "", "go")
     ELSE Labelled("unknown", "", "")

\* Lines 33-105: the chain of detection branches.
Detection(root) ==
  LET files == Files(root)
  IN IF Includes(files, "package.json") THEN NodeBranch(root)
     ELSE IF Includes(files, "requirements.txt") \/ Includes(files, "pyproject.toml")
             \/ Includes(files, "setup.py")
          THEN PythonBranch(root)
     ELSE IF \E i \in 1..Len(files) :
               EndsWith(files[i], ".csproj") \/ EndsWith(files[i], ".sln")
          THEN Labelled(".net", "ASP.NET Core", "dotnet")
     ELSE IF Includes(files, "pom.xml") THEN Labelled("java", "Maven", "Maven")
     ELSE IF Includes(files, "build.gradle") \/ Includes(files, "build.gradle.kts")
          THEN Labelled("java", "Gradle", "Gradle")
     ELSE IF Includes(files, "go.mod") THEN Labelled("go", "", "go")
     ELSE Labelled("unknown", "", "")

\* --- Lines 126-154: getProjectStructure.
\* Line 134: a dot-prefixed item is skipped unless its name includes one of the keys.
Skipped(item) ==
  /\ item # << >> /\ item[1] = "."
  /\ ~\E key \in {"github", "gitignore", "env"} : NameIncludes(item, key)

\* What a traversal gives: the structure array, and the directories it handed to
\* fs.readdirSync (line 131; the failing calls included), as paths below its start.
Listing(structure, reads) == [structure |-> structure, reads |-> reads]

\* sub => `${item}/${sub}` of line 143, for the entries and for the directories read.
Below(item, listing) ==
  Listing([k \in 1..Len(listing.structure) |-> item \o <<"/">> \o listing.structure[k]],
          {item \o <<"/">> \o path : path \in listing.reads})

RECURSIVE GetProjectStructure(_, _, _)
RECURSIVE StructureFrom(_, _, _, _)

\* Variant of StructureFrom: the recursive call of line 142 passes currentDepth on
\* unchanged, so that the depth never reaches maxDepth.
StructureFrom_SameDepth(items, i, maxDepth, currentDepth) ==
  IF i > Len(items) THEN Listing(<< >>, {})
  ELSE IF Skipped(items[i].name) THEN StructureFrom(items, i + 1, maxDepth, currentDepth)
  ELSE IF items[i].kind = "broken" THEN Listing(<< >>, {})
  ELSE LET rest == StructureFrom(items, i + 1, maxDepth, currentDepth)
           subItems == Below(items[i].name,
                             GetProjectStructure(items[i], maxDepth, currentDepth))
       IN IF items[i].kind = "dir"
          THEN Listing(<< items[i].name \o <<"/">> >> \o subItems.structure
                         \o rest.structure,
                       subItems.reads \cup rest.reads)
          ELSE Listing(<<items[i].name>> \o rest.structure, rest.reads)

\* The loop of lines 133-148 from the i-th item on.  fs.statSync throwing leaves the
\* loop for the catch of line 149: no later item is looked at.
StructureFrom(items, i, maxDepth, currentDepth) ==
  IF i > Len(items) THEN Listing(<< >>, {})
  ELSE IF Skipped(items[i].name) THEN StructureFrom(items, i + 1, maxDepth, currentDepth)
  ELSE IF items[i].kind = "broken" THEN Listing(<< >>, {})
  ELSE LET rest == StructureFrom(items, i + 1, maxDepth, currentDepth)
           subItems == IF currentDepth < maxDepth - 1
                       THEN Below(items[i].name,
                                  GetProjectStructure(items[i], maxDepth, currentDepth + 1))
                       ELSE Listing(<< >>, {})
       IN IF items[i].kind = "dir"
          THEN Listing(<< items[i].name \o <<"/">> >> \o subItems.structure
                         \o rest.structure,
                       subItems.reads \cup rest.reads)
          ELSE Listing(<<items[i].name>> \o rest.structure, rest.reads)

\* Lines 127-153.  fs.readdirSync throwing is caught as well: the directory lists as
\* empty.
GetProjectStructure(dir, maxDepth, currentDepth) ==
  IF currentDepth >= maxDepth THEN Listing(<< >>, {})
  ELSE IF ~dir.readable THEN Listing(<< >>, {<< >>})
  ELSE LET listed == StructureFrom(dir.items, 1, maxDepth, currentDepth)
       IN Listing(listed.structure, {<< >>} \cup listed.reads)

\* --- Lines 156-171: detectTests.
TestDeps ==
  {"jest", "mocha", "chai", "pytest", "unittest", "vitest", "cypress", "playwright"}

DetectTests(files, dependencies, devDependencies) ==
  LET hasTestFiles ==
        \E i \in 1..Len(files) :
          \/ NameIncludes(files[i], "test")
          \/ NameIncludes(files[i], "spec")
          \/ \E k \in 1..Len(files[i]) : OccursAt(files[i], <<"__", "test", "s__">>, k)
      hasTestDeps ==
        \E dep \in TestDeps : Declared(dependencies, dep) \/ Declared(devDependencies, dep)
  IN hasTestFiles \/ hasTestDeps

\* --- Lines 19-124: detectProject.  threw is TRUE where an exception leaves it; reads
\* are the directories getProjectStructure handed to fs.readdirSync.
Summary(files, listing, d) ==
  IF d.threw
  THEN [threw |-> TRUE, reads |-> listing.reads, profile |-> DetectThrew]
  ELSE [threw |-> FALSE,
        reads |-> listing.reads,
        profile |->
          [type |-> d.type, framework |-> d.framework, buildTool |-> d.buildTool,
           hasDocker |-> Includes(files, "Dockerfile")
                         \/ Includes(files, "docker-compose.yml"),
           hasTests |-> DetectTests(files, d.dependencies, d.devDependencies),
           dependencies |-> d.dependencies, devDependencies |-> d.devDependencies,
           scripts |-> d.scripts, files |-> files,
           structure |-> listing.structure,
           nodeVersion |-> d.nodeVersion, pythonVersion |-> ""]]

\* fs.readdirSync(repoPath) of line 20 throws on a root that cannot be listed.
DetectProject(root) ==
  IF ~root.readable
  THEN [threw |-> TRUE, reads |-> {}, profile |-> DetectThrew]
  ELSE Summary(Files(root), GetProjectStructure(root, 2, 0), Detection(root))


\* ============================================== openaiUtil.ts, lines 84-171
\* The back quote of the prompt text.
BT == "BT"

\* Lines 165-171: getPackageManager.
GetPackageManager(project) ==
  IF Includes(project.files, "yarn.lock") THEN "yarn"
  ELSE IF Includes(project.files, "pnpm-lock.yaml") THEN "pnpm"
  ELSE IF Includes(project.files, "package-lock.json") THEN "npm (with lock)"
  ELSE IF project.type = "nodejs" THEN "npm (no lock)"
  ELSE "N/A"

\* Lines 87-91.
IsBackstageProject(files) ==
  \E i \in 1..Len(files) :
    \/ NameIncludes(files[i], "backstage.json")
    \/ NameIncludes(files[i], "@backstage/")
    \/ NameIncludes(files[i], "backstage-cli")

\* cond ? 'Yes' : 'No'
YesNo(cond) == IF cond THEN "Yes" ELSE "No"

\* Lines 93-157: the template literal, line by line, with the characters outside
\* ASCII left out.  A line is cut into atoms at the interpolations, at the quotes,
\* and around the phrases "npm install", "npm ci", "cache" and "caching" wherever
\* the text has them.
PromptLines(projectInfo, projectType, packageManager, isBackstageProject, repositoryUrl) ==
  <<
    <<"You are a GitHub Actions workflow generator. Create a **complete CI/CD pipeline** that builds, tests, and deploys to Google Cloud Run.">>,
    <<>>,
    <<"PROJECT CONTEXT:">>,
    <<"- Project Type: ", projectType, " application (", packageManager, ")">>,
    <<"- Is Backstage Project: ", YesNo(isBackstageProject)>>,
    <<"- Repository: ", repositoryUrl>>,
    <<"- Has Docker: ", YesNo(projectInfo.hasDocker)>>,
    <<"- Has Tests: ", YesNo(projectInfo.hasTests)>>,
    <<>>,
    <<"AVAILABLE GITHUB SECRETS:">>,
    <<"- GCP_SA_KEY (service account JSON)">>,
    <<"- GCP_PROJECT_ID (project ID)">>,
    <<"- GCP_REGION (region)">>,
    <<"- OPENWEATHER_API_KEY (if needed)">>,
    <<>>,
    <<" ABSOLUTELY CRITICAL RULES ">>,
    <<>>,
    <<" FORBIDDEN PATTERNS:">>,
    <<"- NEVER export secrets into env vars (>> $GITHUB_ENV).">>,
    <<"- NEVER use ${{ env.PROJECT_ID }} or ${{ env.REGION }}.">>,
    <<"- NEVER generate steps like:">>,
    <<"  echo ", DQ, "PROJECT_ID=${{ secrets.GCP_PROJECT_ID }}", DQ, " >> $GITHUB_ENV">>,
    <<>>,
    <<" REQUIRED PATTERNS:">>,
    <<"- Authenticate Docker to Artifact Registry:">>,
    <<"  run: gcloud auth configure-docker ${{ secrets.GCP_REGION }}-docker.pkg.dev">>,
    <<>>,
    <<"- Create Artifact Registry repository if it doesn't exist:">>,
    <<"  run: gcloud artifacts repositories create ${{ github.event.repository.name }} --repository-format=docker --location=${{ secrets.GCP_REGION }} --project=${{ secrets.GCP_PROJECT_ID }} || echo ", DQ, "Repository may already exist", DQ>>,
    <<>>,
    <<"- Build Docker image:">>,
    <<"  run: docker build -t ${{ secrets.GCP_REGION }}-docker.pkg.dev/${{ secrets.GCP_PROJECT_ID }}/${{ github.event.repository.name }}/${{ github.event.repository.name }}:latest .">>,
    <<>>,
    <<"- Test step (ALWAYS non-blocking):">>,
    <<"  - name: Run tests">>,
    <<"    run: npm test -- --passWithNoTests">>,
    <<"    continue-on-error: true">>,
    <<>>,
    <<" ARTIFACT REGISTRY RULES:">>,
    <<"- **ALWAYS create the Artifact Registry repository** before building/pushing Docker images">>,
    <<"- Use the same name as the GitHub repository: ", BT,
       "${{ github.event.repository.name }}", BT>>,
    <<"- Include error handling: ", BT, "|| echo ", DQ, "Repository may already exist",
       DQ, BT>>,
    <<"- Repository format should be: ", BT, "--repository-format=docker", BT>>,
    <<>>,
    <<" TESTING RULES:">>,
    <<"- For **Backstage projects** (detected by @backstage packages or backstage.json): ">>,
    <<"  * Use ", DQ, "yarn test", DQ, " or ", DQ, "npm run test", DQ,
       " as these use Backstage CLI internally">>,
    <<"  * NEVER use NODE_ENV=test prefix as it causes permission issues">>,
    <<"- For **standard Node.js projects**: Use appropriate test commands based on package manager">>,
    <<"- **ALWAYS make test steps non-blocking** by adding ", BT,
       "continue-on-error: true", BT, " to prevent workflow failure">>,
    <<"- **FORBIDDEN COMMANDS**: ">>,
    <<"  * ", BT, "NODE_ENV=test npm test", BT, " - causes ", DQ, "Permission denied",
       DQ, " errors">>,
    <<"  * ", BT, "NODE_ENV=test jest", BT, " - causes ", DQ, "Permission denied", DQ,
       " errors">>,
    <<"- **RECOMMENDED COMMANDS**:">>,
    <<"  * For Backstage: ", BT, "yarn test", BT, " or ", BT, "npm run test", BT,
       " (depending on package manager)">>,
    <<"  * For standard Node.js: ", BT, "npm test", BT, " or ", BT, "yarn test", BT>>,
    <<"  * Add ", BT, "--passWithNoTests", BT, " flag for jest-based projects: ", BT,
       "npm test -- --passWithNoTests", BT>>,
    <<"- **ALWAYS add ", BT, "continue-on-error: true", BT,
       "** to test steps so workflow continues even if tests fail">>,
    <<>>,
    <<" OUTPUT REQUIREMENTS:">>,
    <<"- Use secrets directly in commands.">>,
    <<"- Do NOT wrap YAML in markdown fences.">>,
    <<"- Output only valid YAML, no commentary.">>,
    <<>>,
    <<"Now generate the final workflow.">>
  >>

\* Lines 84-158: buildSystemPrompt.  projectInfo is JSON.parse(summary) of line 18,
\* the summary being JSON.stringify(summaryObj) of the handler; of its fields the
\* prompt reads type, files, hasDocker and hasTests.
BuildSystemPrompt(projectInfo, repositoryUrl) ==
  PromptLines(projectInfo,
              IF projectInfo.type = "nodejs" THEN "Node.js" ELSE projectInfo.type,
              GetPackageManager(projectInfo),
              IsBackstageProject(projectInfo.files),
              IF repositoryUrl # "" THEN repositoryUrl ELSE "Not specified")


\* ======================================================= bounds and inputs
\* Longest free-form message text (any atoms, in any order).
MaxLen == 3
\* Most lines of a message text built from whole workflow lines.
MaxLines == 2

\* echo "NAME=${{ secrets.X }}" >> $GITHUB_ENV, quoted with q, sp before $GITHUB_ENV.
ExportLine(q, name, secret, sp) ==
  <<Echo, SP>> \o q \o <<name>> \o Ref(secret) \o q \o <<SP, AppendOp>> \o sp
    \o <<Dollar, GithubEnv>>

ExportLines ==
  { ExportLine(<<DQ>>, ProjectIdAssign, SecretProjectId, <<SP>>),
    ExportLine(<< >>, ProjectIdAssign, SecretProjectId, << >>),
    ExportLine(<<DQ>>, RegionAssign, SecretRegion, <<SP>>) }

\* --project=${{env.X}} with the same white space on both sides of the name.
EnvLine(atom, ws) == <<"a", SP, Dollar, LB, LB>> \o ws \o <<atom>> \o ws \o <<RB, RB>>

EnvLines ==
  { EnvLine(EnvProjectId, << >>), EnvLine(EnvProjectId, <<SP, SP>>),
    EnvLine(EnvRegion, <<SP>>), EnvLine(EnvOther, <<SP>>) }

\* One placeholder written inside the braces of another.
NestedLines ==
  { <<Dollar, LB, LB, SP, EnvProjectId>> \o Ref(EnvRegion) \o <<RB, RB>>,
    <<Dollar, LB, LB, SP, EnvRegion>> \o Ref(EnvProjectId) \o <<SP, RB, RB>> }

WorkflowLines ==
  {<<"a">>, <<Echo, SP, "a">>, <<"a", SP>> \o Ref(SecretProjectId)}
  \cup ExportLines \cup EnvLines \cup NestedLines

\* Texts of at most MaxLines workflow lines.
LineTexts == {JoinLines(ls) : ls \in SeqsUpTo(WorkflowLines, MaxLines)}

FreeAtoms == {FENCE, Yaml, Yml, NL, SP, LB, RB, "a"}

FreeTexts == SeqsUpTo(FreeAtoms, MaxLen)

FenceTags == {"none", "bare", Yaml, Yml}

\* The message text: body as it is, or inside a code fence with the given tag.
Wrap(tag, body) ==
  IF tag = "none" THEN body
  ELSE IF tag = "bare" THEN <<FENCE, NL>> \o body \o <<NL, FENCE>>
  ELSE <<FENCE, tag, NL>> \o body \o <<NL, FENCE>>

\* What the chat completion call can come back with: a rejected call, a response
\* with an empty choices array, a choice whose message content is null, or a choice
\* with a message text.
NoText == [tag |-> "none", body |-> << >>]
ApiFailures ==
  {[kind |-> k, msg |-> NoText] : k \in {"rejected"}}
ApiEmpties ==
  {[kind |-> k, msg |-> NoText] : k \in {"emptyChoices", "nullContent"}}
ApiTexts(tags, bodies) ==
  {[kind |-> "content", msg |-> [tag |-> t, body |-> b]] : t \in tags, b \in bodies}

AllApiResponses ==
  ApiEmpties \cup ApiTexts(FenceTags, LineTexts) \cup ApiTexts({"none"}, FreeTexts)

\* response.choices[0]?.message?.content || ''   (line 51)
MessageContent(resp) ==
  IF resp.kind = "content" THEN Wrap(resp.msg.tag, resp.msg.body) ELSE << >>


\* --- What model.generateContent can come back with (ai:generate-template).
\* A JSON envelope is described by its shape: how each field is written (t, w, f, p),
\* whether a comma follows the last member, the layout and what surrounds it.
TemplateShapes ==
  [ t : {"absent", "plain", "empty", "rawNL", "escNL", "dblEscNL", "num"},
    w : {"absent", "plain", "export", "rawNL"},
    f : {"absent", "plain"},
    p : {"absent", "list"},
    comma : BOOLEAN,
    layout : {"compact", "pretty"},
    wrap : {"none", "json", "bare", "prose", "brace"} ]

FreeShape ==
  [t |-> "free", w |-> "free", f |-> "free", p |-> "free", comma |-> FALSE,
   layout |-> "free", wrap |-> "free"]

\* The characters between the quotes of a string written the given way.
StringBody(how) ==
  IF how = "plain" THEN <<"a">>
  ELSE IF how = "rawNL" THEN <<"a", NL, "a">>
  ELSE IF how = "escNL" THEN <<"a", BS, LetterN, "a">>
  ELSE IF how = "dblEscNL" THEN <<"a", BS, BS, LetterN, "a">>
  ELSE IF how = "export"
       THEN ExportLine(<< >>, ProjectIdAssign, SecretProjectId, <<SP>>)
              \o <<BS, LetterN>> \o EnvLine(EnvRegion, <<SP>>)
  ELSE << >>

\* The text the field's author meant: every newline, however written, is a newline.
MeantText(how) ==
  IF how \in {"rawNL", "escNL", "dblEscNL"} THEN <<"a", NL, "a">>
  ELSE IF how = "export"
       THEN ExportLine(<< >>, ProjectIdAssign, SecretProjectId, <<SP>>)
              \o <<NL>> \o EnvLine(EnvRegion, <<SP>>)
  ELSE StringBody(how)

ValueText(how) ==
  IF how = "num" THEN <<One>>
  ELSE IF how = "list" THEN <<LK, DQ, "a", DQ, RK>>
  ELSE <<DQ>> \o StringBody(how) \o <<DQ>>

MemberText(key, how) ==
  IF how = "absent" THEN << >> ELSE << <<DQ, key, DQ, Colon>> \o ValueText(how) >>

EnvelopeText(shape) ==
  LET members == MemberText(KTemplate, shape.t) \o MemberText(KWorkflow, shape.w)
                   \o MemberText(KFileName, shape.f) \o MemberText(KParameters, shape.p)
      pretty == shape.layout = "pretty"
      body == JoinWith(members, IF pretty THEN <<Comma, NL, SP>> ELSE <<Comma>>)
                \o (IF shape.comma THEN <<Comma>> ELSE << >>)
      object == IF pretty THEN <<LB, NL, SP>> \o body \o <<NL, RB>>
                ELSE <<LB>> \o body \o <<RB>>
  IN IF shape.wrap = "json" THEN <<FENCE, Json, NL>> \o object \o <<NL, FENCE>>
     ELSE IF shape.wrap = "bare" THEN <<FENCE, NL>> \o object \o <<NL, FENCE, NL>>
     ELSE IF shape.wrap = "prose" THEN <<"a", SP>> \o object \o <<NL, "a">>
     ELSE IF shape.wrap = "brace" THEN object \o <<SP, RB>>
     ELSE object

TemplateFreeAtoms == {LB, RB, DQ, BS, Comma, NL, FENCE, "a"}

TemplateResults ==
  {[kind |-> k, text |-> << >>, shape |-> FreeShape] : k \in {"rejected", "blocked"}}
  \cup {[kind |-> "text", text |-> EnvelopeText(sh), shape |-> sh] : sh \in TemplateShapes}
  \cup {[kind |-> "text", text |-> txt, shape |-> FreeShape] :
          txt \in SeqsUpTo(TemplateFreeAtoms, MaxLen)}

TemplateInputs ==
  { [ templateName |-> nd[1],
      templateTitle |-> "Title",
      templateDescription |-> nd[2],
      infrastructureType |-> "s3",
      workflowRepo |-> "org/repo" ] : nd \in {<<"tplA", "">>, <<"tplB", "Desc">>} }

\* --- The directories detectProject is run on.
\* Most entries of one directory.
MaxEntries == 2

File(name, content) == Entry(name, "file", TRUE, << >>, content)
Unreadable(name, kind) == Entry(name, kind, FALSE, << >>, << >>)
Dir(name, items) == Entry(name, "dir", TRUE, items, << >>)
Broken(name) == Entry(name, "broken", FALSE, << >>, << >>)
Root(items) == Dir(<< >>, items)

\* The subsets of S with at most k elements (0 is not in S).
SubsetsUpTo(S, k) == { {f[i] : i \in 1..k} \ {0} : f \in [1..k -> S \cup {0}] }

\* The elements of a set of numbers in increasing order.
Ascending(S) ==
  CHOOSE f \in [1..Cardinality(S) -> S] :
    \A i \in 1..Cardinality(S), j \in 1..Cardinality(S) : i < j => f[i] < f[j]

\* package.json: the packages a manifest declares, and its text.
Frameworks ==
  {"react", "vue", "angular", "next", "express", "nestjs", "@backstage/core-components"}

Packages == Frameworks \cup {"@parcel/core", "jest", "lodash"}

\* {"<name>":"1.0.0"}, or {} for no name.
PackageMap(name) ==
  IF name = "" THEN <<LB, RB>> ELSE <<LB, DQ, name, DQ, Colon, DQ, "1.0.0", DQ, RB>>

\* A manifest with one package (or none) in dependencies and in devDependencies; a
\* section without a package is left out.
ManifestText(dep, dev) ==
  LET sections ==
        (IF dep = "" THEN << >>
         ELSE << <<DQ, "dependencies", DQ, Colon>> \o PackageMap(dep) >>)
        \o (IF dev = "" THEN << >>
            ELSE << <<DQ, "devDependencies", DQ, Colon, SP>> \o PackageMap(dev) >>)
  IN <<LB>> \o JoinWith(sections, <<Comma, NL>>) \o <<RB>>

ManifestTexts ==
  { ManifestText(pair[1], pair[2]) :
      pair \in { q \in (Packages \cup {""}) \X (Packages \cup {""}) :
                   \/ q[1] = ""
                   \/ q[2] = ""
                   \/ q[1] \in Frameworks /\ q[2] \in Frameworks /\ q[1] # q[2] } }
  \cup { <<LB, DQ, "scripts", DQ, Colon, LB, DQ, "build", DQ, Colon, DQ, "a", DQ, RB, Comma,
           DQ, "engines", DQ, Colon, LB, DQ, "node", DQ, Colon, DQ, "18", DQ, RB, RB>> }

PackageJsonFiles ==
  { File(<<"package.json">>, text) : text \in ManifestTexts \cup {<<LB>>, <<Null>>, << >>} }
  \cup { Unreadable(<<"package.json">>, "file") }

\* requirements.txt: name<op>version lines.
Requirement(name, op) == IF op = << >> THEN <<name>> ELSE <<name>> \o op \o <<"2.3.0">>

RequirementLines ==
  { Requirement(name, op) :
      name \in {"Flask", "pytest"},
      op \in {<<"=", "=">>, <<">", "=">>, <<"<", "=">>, <<">">>, <<"<">>, << >>} }

RequirementTexts ==
  RequirementLines
  \cup { << >>,
         Requirement("Flask", <<"=", "=">>) \o <<NL>>,
         Requirement("Flask", <<">">>) \o <<NL>> \o Requirement("pytest", <<"=", "=">>),
         <<"Flask", SP, ">", SP, "2.3.0", NL>> }

RequirementsFiles ==
  { File(<<"requirements.txt">>, text) : text \in RequirementTexts }
  \cup { Unreadable(<<"requirements.txt">>, "file") }

AppTestJs == <<"app", ".", "test", ".js">>

\* What a repository root is made of: the choices, in the order readdirSync lists
\* the entries.  The first two stand for the files above.
RootChoices ==
  << PackageJsonFiles, RequirementsFiles,
     {File(<<"pyproject.toml">>, << >>)}, {File(<<"setup.py">>, << >>)},
     {File(<<"Pipfile">>, << >>)},
     {File(<<"app", ".csproj">>, << >>)}, {File(<<"app", ".sln">>, << >>)},
     {File(<<"pom.xml">>, << >>)}, {File(<<"build.gradle">>, << >>)},
     {File(<<"build.gradle.kts">>, << >>)}, {File(<<"go.mod">>, << >>)},
     {File(<<"webpack.config.js">>, << >>)}, {File(<<"vite.config.js">>, << >>)},
     {File(<<"vite.config.ts">>, << >>)}, {File(<<"rollup.config.js">>, << >>)},
     {File(<<"Dockerfile">>, << >>)}, {File(<<"README.md">>, << >>)},
     {File(AppTestJs, << >>)},
     {Dir(<<"src">>, <<File(AppTestJs, << >>)>>), Dir(<<"src">>, <<File(<<"b">>, << >>)>>)} >>

\* Beside a package.json the requirements.txt is never read: one text is enough.
ChoicesBeside(picked, n) ==
  IF n = 2 /\ 1 \in picked
  THEN {File(<<"requirements.txt">>, Requirement("Flask", <<"=", "=">>))}
  ELSE RootChoices[n]

\* The sequences that take their i-th element from the i-th set.
RECURSIVE Products(_)
Products(sets) ==
  IF sets = << >> THEN { << >> }
  ELSE { <<first>> \o rest : first \in Head(sets), rest \in Products(Tail(sets)) }

\* Roots of at most MaxEntries entries, one of each picked choice, and a root that
\* cannot be listed.
ManifestRoots ==
  UNION { LET order == Ascending(picked)
          IN { Root(items) :
                 items \in Products([i \in 1..Cardinality(picked) |->
                                       ChoicesBeside(picked, order[i])]) }
          : picked \in SubsetsUpTo(1..Len(RootChoices), MaxEntries) }
  \cup { Unreadable(<< >>, "dir") }

\* --- Trees for getProjectStructure: hidden entries, entries that cannot be stat-ed or
\* listed, and directories three levels deep.
SubDirectoryItems ==
  { << >>,
    << File(<<"b">>, << >>) >>,
    << Dir(<<"c">>, <<File(<<"d">>, << >>)>>) >>,
    << File(<<"b">>, << >>), Broken(<<"x">>), Dir(<<"c">>, <<File(<<"d">>, << >>)>>) >>,
    << Unreadable(<<"c">>, "dir"), File(<<"b">>, << >>) >>,
    << File(<<".", "secret">>, << >>), File(<<"b">>, << >>) >> }

TreeEntries ==
  { Dir(<<"a">>, items) : items \in SubDirectoryItems }
  \cup { Unreadable(<<"a">>, "dir"),
         Dir(<<"e">>, <<File(<<"b">>, << >>)>>),
         Dir(<<".", "git">>, <<File(<<"HEAD">>, << >>)>>),
         Dir(<<".", "github">>, <<Dir(<<"workflows">>, <<File(<<"ci.yml">>, << >>)>>)>>),
         Dir(<<".", "v", "env">>, <<Dir(<<"bin">>, <<File(<<"python">>, << >>)>>)>>),
         File(<<".", "env">>, << >>),
         File(<<".", "gitignore">>, << >>),
         File(<<".", "hidden">>, << >>),
         File(<<"f">>, << >>),
         Broken(<<"link">>) }

\* Roots of at most MaxEntries entries with different names, in any order, and a root
\* that cannot be listed.
TreeRoots ==
  { Root(items) :
      items \in { s \in SeqsUpTo(TreeEntries, MaxEntries) :
                    \A i \in 1..Len(s), j \in 1..Len(s) : i # j => s[i].name # s[j].name } }
  \cup { Unreadable(<< >>, "dir") }

\* --- The repositories ai:generate-pipeline is run on: Node.js projects without a
\* lock file and with the lock file of npm and of yarn, a Python project, a root
\* that cannot be listed and a package.json that does not parse.
HandlerRoots ==
  { Unreadable(<< >>, "dir"),
    Root(<<File(<<"package.json">>, ManifestText("express", ""))>>),
    Root(<<File(<<"package-lock.json">>, << >>),
           File(<<"package.json">>, ManifestText("express", "jest"))>>),
    Root(<<File(<<"package.json">>, ManifestText("react", "")),
           File(<<"yarn.lock">>, << >>)>>),
    Root(<<File(<<"requirements.txt">>, Requirement("Flask", <<">", "=">>))>>),
    Root(<<File(<<"package.json">>, <<LB>>)>>) }

\* The projects generatePipelineYAML is called on by itself.
GenerateRoots ==
  { Root(<<File(<<"package.json">>, ManifestText("express", ""))>>),
    Root(<<File(<<"package-lock.json">>, << >>),
           File(<<"package.json">>, ManifestText("express", "jest"))>>) }

\* Line 60: https://github.com/<owner>/<repo>
RepositoryUrl == "https://github.com/owner/repo"

\* ================================================================== state
VARIABLES
  gpc,                \* generatePipelineYAML: "idle", "awaitApi", "returned", "thrown"
  apiResponse,        \* what openai.chat.completions.create resolved with
  pipelineYaml,       \* the string generatePipelineYAML returned
  apiCalls,           \* calls made to the chat completion service
  systemPrompt,       \* the system message of the request, line by line
  hpc,                \* ai:generate-pipeline handler: the await it is suspended at
  hInput,             \* ctx.input and options, as far as the handler branches on them
  workflowFile,       \* .github/workflows/<pipelineFileName> in the workspace
  hOutputs,           \* ctx.output calls of the handler, in order
  branchName,         \* the handler's local branchName
  githubCalls         \* Octokit requests made, in order

VARIABLES
  dpc,                \* detectProject: "idle", "called", "returned", "thrown"
  repoPath,           \* the directory at repoPath, as the file system holds it
  summaryObj          \* what detectProject came back with, and the directories it listed

detectVars == <<dpc, repoPath, summaryObj>>

VARIABLES
  tpc,                \* ai:generate-template handler: "idle", "awaitModel", "done", "failed"
  tInput,             \* ctx.input of ai:generate-template
  tResult,            \* what model.generateContent came back with
  tOutputs,           \* ctx.output calls of ai:generate-template, in order
  modelCalls          \* calls made to model.generateContent

VARIABLES
  run,                \* the invocations of ai:generate-pipeline in flight: their locals
  disk,               \* .github/workflows/<pipelineFileName> under each repository directory
  clock,              \* what new Date() returns, in ticks
  refs                \* the branches of the GitHub repository the invocations share

runVars == <<run, disk, clock, refs>>

VARIABLES
  cw,                 \* the invocations of github:actions:create-workflow: their locals
  remote              \* the workflow files of the GitHub repository: their content

workflowVars == <<cw, remote>>

templateVars == <<tpc, tInput, tResult, tOutputs, modelCalls>>
genVars == <<gpc, apiResponse, pipelineYaml, apiCalls, systemPrompt>>
handlerVars == <<hpc, hInput, workflowFile, hOutputs, branchName, githubCalls>>

NoResponse == [kind |-> "none", msg |-> NoText]
NoFile == <<"ENOENT">>
NoInput == [createPullRequest |-> FALSE, ownerRepo |-> FALSE, githubToken |-> FALSE]

InitPipeline ==
  /\ gpc = "idle"
  /\ apiResponse = NoResponse
  /\ pipelineYaml = << >>
  /\ apiCalls = 0
  /\ systemPrompt = << >>
  /\ hpc = "idle"
  /\ hInput = NoInput
  /\ workflowFile = NoFile
  /\ hOutputs = << >>
  /\ branchName = ""
  /\ githubCalls = << >>

\* ------------------------------------------- generatePipelineYAML (openaiUtil.ts)
\* Lines 18-48, called on its own: the summary is parsed, the prompts are built and
\* the one request is sent.
CallGenerate ==
  /\ hpc = "idle"
  /\ gpc = "idle"
  /\ \E root \in GenerateRoots, repositoryUrl \in {"", RepositoryUrl} :
       systemPrompt' = BuildSystemPrompt(DetectProject(root).profile, repositoryUrl)
  /\ gpc' = "awaitApi"
  /\ apiCalls' = apiCalls + 1
  /\ UNCHANGED <<apiResponse, pipelineYaml, handlerVars, templateVars, detectVars>>
  /\ UNCHANGED <<runVars, workflowVars>>

\* Variant of ApiRejects: the catch block sends the request once more before it gives
\* up.
ApiRejects_Retries ==
  /\ gpc = "awaitApi"
  /\ IF apiCalls < 2
     THEN gpc' = "awaitApi" /\ apiCalls' = apiCalls + 1
     ELSE gpc' = "thrown" /\ UNCHANGED apiCalls
  /\ UNCHANGED <<apiResponse, pipelineYaml, systemPrompt, handlerVars, templateVars,
               detectVars>>
  /\ UNCHANGED <<runVars, workflowVars>>

\* Lines 74-81: the request failed; the catch block logs and throws a new Error.
ApiRejects ==
  /\ gpc = "awaitApi"
  /\ gpc' = "thrown"
  /\ UNCHANGED <<apiResponse, pipelineYaml, apiCalls, systemPrompt, handlerVars,
               templateVars, detectVars>>
  /\ UNCHANGED <<runVars, workflowVars>>

\* Lines 50-72: the request resolved; the content is post-processed and returned.
ApiResolves(responses) ==
  /\ gpc = "awaitApi"
  /\ \E resp \in responses :
       /\ apiResponse' = resp
       /\ pipelineYaml' = PostProcess(MessageContent(resp))
  /\ gpc' = "returned"
  /\ UNCHANGED <<apiCalls, systemPrompt, handlerVars, templateVars, detectVars>>
  /\ UNCHANGED <<runVars, workflowVars>>

\* ----------------------------- ai:generate-pipeline handler (lines 37-239)
BranchTimestamp == "ai-pipeline-T"

\* Lines 227-233.
PipelineOutputs(yaml, created, branch) ==
  << [name |-> "pipelineContent", value |-> yaml],
     [name |-> "filePath", value |-> <<"filePath">>],
     [name |-> "projectSummary", value |-> <<"summary">>],
     [name |-> "pullRequestCreated", value |-> <<created>>] >>
  \o (IF branch # "" THEN <<[name |-> "branchName", value |-> <<branch>>]>> ELSE << >>)

\* Variant of HandlerStart: a failure of detectProject is caught and the prompt is
\* built from the profile of an empty directory.
HandlerStart_DetectCaught ==
  /\ hpc = "idle" /\ gpc = "idle" /\ dpc = "idle"
  /\ \E pr \in BOOLEAN, or \in BOOLEAN, tok \in BOOLEAN :
       hInput' = [createPullRequest |-> pr, ownerRepo |-> or, githubToken |-> tok]
  /\ \E root \in HandlerRoots :
       /\ repoPath' = root
       /\ summaryObj' = DetectProject(root)
  /\ dpc' = IF summaryObj'.threw THEN "thrown" ELSE "returned"
  /\ hpc' = "awaitGenerate"
  /\ systemPrompt' = BuildSystemPrompt(IF summaryObj'.threw
                                       THEN DetectProject(Root(<< >>)).profile
                                       ELSE summaryObj'.profile,
                                       IF hInput'.ownerRepo THEN RepositoryUrl ELSE "")
  /\ gpc' = "awaitApi" /\ apiCalls' = apiCalls + 1
  /\ UNCHANGED <<apiResponse, pipelineYaml, workflowFile, hOutputs, branchName,
                 githubCalls, templateVars>>
  /\ UNCHANGED <<runVars, workflowVars>>

\* Lines 38-67.  detectProject runs first, outside the try block: where it throws,
\* the handler rejects at once.  Otherwise the handler enters the try block and
\* calls generatePipelineYAML, which builds the prompts and sends the request.
HandlerStart ==
  /\ hpc = "idle" /\ gpc = "idle" /\ dpc = "idle"
  /\ \E pr \in BOOLEAN, or \in BOOLEAN, tok \in BOOLEAN :
       hInput' = [createPullRequest |-> pr, ownerRepo |-> or, githubToken |-> tok]
  /\ \E root \in HandlerRoots :
       /\ repoPath' = root
       /\ summaryObj' = DetectProject(root)
  /\ IF summaryObj'.threw
     THEN /\ dpc' = "thrown"
          /\ hpc' = "failed"
          /\ UNCHANGED <<gpc, apiCalls, systemPrompt>>
     ELSE /\ dpc' = "returned"
          /\ hpc' = "awaitGenerate"
          /\ systemPrompt' =
               BuildSystemPrompt(summaryObj'.profile,
                                 IF hInput'.ownerRepo THEN RepositoryUrl ELSE "")
          /\ gpc' = "awaitApi"
          /\ apiCalls' = apiCalls + 1
  /\ UNCHANGED <<apiResponse, pipelineYaml, workflowFile, hOutputs, branchName, githubCalls,
               templateVars>>
  /\ UNCHANGED <<runVars, workflowVars>>

\* Variant of HandlerGenerateThrew: the catch block swallows the error and emits a
\* placeholder pipeline instead of rethrowing.
HandlerGenerateThrew_Recovers ==
  /\ hpc = "awaitGenerate" /\ gpc = "thrown"
  /\ hpc' = "done"
  /\ hOutputs' = PipelineOutputs(<<"a">>, FALSE, "")
  /\ UNCHANGED <<genVars, hInput, workflowFile, branchName, githubCalls,
               templateVars, detectVars>>
  /\ UNCHANGED <<runVars, workflowVars>>

\* Lines 235-238: generatePipelineYAML threw; the handler logs and rethrows.
HandlerGenerateThrew ==
  /\ hpc = "awaitGenerate" /\ gpc = "thrown"
  /\ hpc' = "failed"
  /\ UNCHANGED <<genVars, hInput, workflowFile, hOutputs, branchName, githubCalls,
               templateVars, detectVars>>
  /\ UNCHANGED <<runVars, workflowVars>>

\* Lines 68-76: the YAML came back; the workflows directory is ensured.
HandlerGenerateReturned ==
  /\ hpc = "awaitGenerate" /\ gpc = "returned"
  /\ hpc' = "awaitEnsureDir"
  /\ UNCHANGED <<genVars, hInput, workflowFile, hOutputs, branchName, githubCalls,
               templateVars, detectVars>>
  /\ UNCHANGED <<runVars, workflowVars>>

\* Lines 76-78.
HandlerEnsureDir ==
  /\ hpc = "awaitEnsureDir"
  /\ \/ hpc' = "awaitWriteFile"
     \/ hpc' = "failed"
  /\ UNCHANGED <<genVars, hInput, workflowFile, hOutputs, branchName, githubCalls,
               templateVars, detectVars>>
  /\ UNCHANGED <<runVars, workflowVars>>

\* Lines 78-108 and, when no request to GitHub is made, on to 221-233.
HandlerWriteFile ==
  /\ hpc = "awaitWriteFile"
  /\ \/ /\ hpc' = "failed"              \* fs.writeFile rejected
        /\ UNCHANGED <<workflowFile, hOutputs, branchName, githubCalls>>
     \/ /\ workflowFile' = pipelineYaml
        /\ IF hInput.createPullRequest /\ hInput.ownerRepo /\ hInput.githubToken
           THEN /\ branchName' = BranchTimestamp
                /\ githubCalls' = Append(githubCalls, "getBranch")
                /\ hpc' = "awaitGetBranch"
                /\ UNCHANGED hOutputs
           ELSE \* no PR wanted, owner/repo missing, or the token check threw (line 91)
                /\ hOutputs' = PipelineOutputs(pipelineYaml, FALSE, "")
                /\ hpc' = "done"
                /\ UNCHANGED <<branchName, githubCalls>>
  /\ UNCHANGED <<genVars, hInput, templateVars, detectVars>>
  /\ UNCHANGED <<runVars, workflowVars>>

\* Lines 217-233: a request of the PR block failed; the catch warns, then the outputs.
PrFailed ==
  /\ hOutputs' = PipelineOutputs(pipelineYaml, FALSE, branchName)
  /\ hpc' = "done"
  /\ UNCHANGED githubCalls

\* One request of the PR block came back: on success the next request is sent.
PrStep(at, nextCall, nextPc) ==
  /\ hpc = at
  /\ \/ PrFailed
     \/ /\ githubCalls' = Append(githubCalls, nextCall)
        /\ hpc' = nextPc
        /\ UNCHANGED hOutputs
  /\ UNCHANGED <<genVars, hInput, workflowFile, branchName, templateVars, detectVars>>
  /\ UNCHANGED <<runVars, workflowVars>>

\* Lines 104-116.
HandlerGetBranch == PrStep("awaitGetBranch", "createRef", "awaitCreateRef")

\* Lines 111-126.
HandlerCreateRef == PrStep("awaitCreateRef", "getContent", "awaitGetContent")

\* Lines 119-155: whether or not the file exists on the branch, the write follows.
HandlerGetContent ==
  /\ hpc = "awaitGetContent"
  /\ githubCalls' = Append(githubCalls, "createOrUpdateFileContents")
  /\ hpc' = "awaitPutFile"
  /\ UNCHANGED <<genVars, hInput, workflowFile, hOutputs, branchName, templateVars, detectVars>>
  /\ UNCHANGED <<runVars, workflowVars>>

\* Lines 135-210.
HandlerPutFile == PrStep("awaitPutFile", "pulls.create", "awaitCreatePr")

\* Lines 158-233.
HandlerCreatePr ==
  /\ hpc = "awaitCreatePr"
  /\ \/ PrFailed
     \/ /\ hOutputs' = PipelineOutputs(pipelineYaml, TRUE, branchName)
        /\ hpc' = "done"
        /\ UNCHANGED githubCalls
  /\ UNCHANGED <<genVars, hInput, workflowFile, branchName, templateVars, detectVars>>
  /\ UNCHANGED <<runVars, workflowVars>>


\* ------------------- ai:generate-template handler (aiTemplateGeneration.ts)
NoTemplateInput ==
  [templateName |-> "", templateTitle |-> "", templateDescription |-> "",
   infrastructureType |-> "", workflowRepo |-> ""]
NoResult == [kind |-> "none", text |-> << >>, shape |-> FreeShape]

InitTemplate ==
  /\ tpc = "idle"
  /\ tInput = NoTemplateInput
  /\ tResult = NoResult
  /\ tOutputs = << >>
  /\ modelCalls = 0

\* Lines 24-86: the prompts are built and model.generateContent is called.
TemplateStart ==
  /\ tpc = "idle"
  /\ \E input \in TemplateInputs : tInput' = input
  /\ tpc' = "awaitModel"
  /\ modelCalls' = modelCalls + 1
  /\ UNCHANGED <<tResult, tOutputs, genVars, handlerVars, detectVars>>
  /\ UNCHANGED <<runVars, workflowVars>>

\* Lines 88-160: the call came back, the try block ran to its end and emitted the
\* generated template and workflow.
TemplateSucceeds ==
  /\ tpc = "awaitModel"
  /\ \E result \in TemplateResults :
       /\ ~TemplateTry(result).threw
       /\ tResult' = result
       /\ tOutputs' = TemplateTry(result).outs
  /\ tpc' = "done"
  /\ UNCHANGED <<tInput, modelCalls, genVars, handlerVars, detectVars>>
  /\ UNCHANGED <<runVars, workflowVars>>

\* Variant of TemplateFallsBack: the catch block writes what went wrong into the
\* description of the fallback template.
TemplateFallsBack_DescribesFailure ==
  /\ tpc = "awaitModel"
  /\ \E result \in TemplateResults :
       /\ TemplateTry(result).threw
       /\ tResult' = result
       /\ tOutputs' = TemplateTry(result).outs
                        \o FallbackOutputs([tInput EXCEPT !.templateDescription = result.kind])
  /\ tpc' = "done"
  /\ UNCHANGED <<tInput, modelCalls, genVars, handlerVars, detectVars>>
  /\ UNCHANGED <<runVars, workflowVars>>

\* Lines 161-230: something in the try block threw; the catch block emits the
\* fallback after whatever the try block had emitted.
TemplateFallsBack ==
  /\ tpc = "awaitModel"
  /\ \E result \in TemplateResults :
       /\ TemplateTry(result).threw
       /\ tResult' = result
       /\ tOutputs' = TemplateTry(result).outs \o FallbackOutputs(tInput)
  /\ tpc' = "done"
  /\ UNCHANGED <<tInput, modelCalls, genVars, handlerVars, detectVars>>
  /\ UNCHANGED <<runVars, workflowVars>>

\* ------------------------------------------------- detectProject (detectProject.ts)
NoSummary == [threw |-> FALSE, reads |-> {}, profile |-> DetectThrew]

InitDetect ==
  /\ dpc = "idle"
  /\ repoPath = Root(<< >>)
  /\ summaryObj = NoSummary

\* detectProject(repoPath) is called on one of the directories.
DetectCall(roots) ==
  /\ dpc = "idle"
  /\ \E root \in roots : repoPath' = root
  /\ dpc' = "called"
  /\ UNCHANGED <<summaryObj, genVars, handlerVars, templateVars>>
  /\ UNCHANGED <<runVars, workflowVars>>

\* Lines 20-123: the function is synchronous; it returns the summary or throws.
DetectProjectRuns ==
  /\ dpc = "called"
  /\ summaryObj' = DetectProject(repoPath)
  /\ dpc' = IF summaryObj'.threw THEN "thrown" ELSE "returned"
  /\ UNCHANGED <<repoPath, genVars, handlerVars, templateVars>>
  /\ UNCHANGED <<runVars, workflowVars>>

\* ------------- ai:generate-pipeline, several invocations (part_006 lines 37-239)
\* The invocations the scaffolder runs side by side, and the directories they are
\* given as repoPath.
Runs == 1..2
RunDirs == 1..2

RunRoot(dir) ==
  IF dir = 1
  THEN Root(<<File(<<"package.json">>, ManifestText("express", ""))>>)
  ELSE Root(<<File(<<"package.json">>, ManifestText("react", "")),
              File(<<"yarn.lock">>, << >>)>>)

\* What the chat completion service answers an invocation with.
RunApiResponses == ApiTexts({"none"}, {<<"a">>, <<"b", NL, "b">>})

\* Line 98: toISOString() with ':' and '.' replaced, cut after the seconds.
TicksPerSecond == 2
MaxClock == 2
Timestamp(now) == ToString(now \div TicksPerSecond)

\* Line 99.
BranchNameAt(now) == "ai-pipeline-" \o Timestamp(now)

\* The locals of one invocation.  pr: createPullRequest, owner, repo and the token
\* are all given.
NoRun ==
  [pc |-> "idle", dir |-> 0, pr |-> FALSE, prompt |-> << >>, resp |-> NoResponse,
   yaml |-> << >>, outs |-> << >>, branch |-> "", refTaken |-> FALSE]

InitRuns ==
  /\ run = [i \in Runs |-> NoRun]
  /\ disk = [dir \in RunDirs |-> NoFile]
  /\ clock = 0
  /\ refs = {}

RunLeavesRest == UNCHANGED <<genVars, handlerVars, templateVars, detectVars, workflowVars>>

\* Lines 38-67 for a summary detectProject came back with.
RunStarted(r, dir, pr, summary) ==
  IF summary.threw
  THEN [r EXCEPT !.dir = dir, !.pr = pr, !.pc = "failed"]
  ELSE [r EXCEPT !.dir = dir, !.pr = pr, !.pc = "awaitApi",
                 !.prompt = BuildSystemPrompt(summary.profile,
                                              IF pr THEN RepositoryUrl ELSE "")]

\* Lines 38-67.
RunStart(i) ==
  /\ run[i].pc = "idle"
  /\ \E dir \in RunDirs, pr \in BOOLEAN :
       run' = [run EXCEPT ![i] = RunStarted(@, dir, pr, DetectProject(RunRoot(dir)))]
  /\ UNCHANGED <<disk, clock, refs>>
  /\ RunLeavesRest

\* openaiUtil.ts lines 74-81 and part_006 lines 235-238.
RunApiRejects(i) ==
  /\ run[i].pc = "awaitApi"
  /\ run' = [run EXCEPT ![i].pc = "failed"]
  /\ UNCHANGED <<disk, clock, refs>>
  /\ RunLeavesRest

\* Variant of RunApiResolves: the generated YAML is kept in a variable of the module,
\* which every invocation in flight reads.
RunApiResolves_SharedYaml(i) ==
  /\ run[i].pc = "awaitApi"
  /\ \E resp \in RunApiResponses :
       run' = [j \in Runs |->
                 IF j = i
                 THEN [run[j] EXCEPT !.resp = resp, !.pc = "awaitEnsureDir",
                                     !.yaml = PostProcess(MessageContent(resp))]
                 ELSE IF run[j].pc \in {"awaitEnsureDir", "awaitWriteFile"}
                      THEN [run[j] EXCEPT !.yaml = PostProcess(MessageContent(resp))]
                      ELSE run[j]]
  /\ UNCHANGED <<disk, clock, refs>>
  /\ RunLeavesRest

\* openaiUtil.ts lines 50-72 and part_006 lines 60-76.
RunApiResolves(i) ==
  /\ run[i].pc = "awaitApi"
  /\ \E resp \in RunApiResponses :
       run' = [run EXCEPT ![i].resp = resp, ![i].pc = "awaitEnsureDir",
                          ![i].yaml = PostProcess(MessageContent(resp))]
  /\ UNCHANGED <<disk, clock, refs>>
  /\ RunLeavesRest

\* Lines 76-78.
RunEnsureDir(i) ==
  /\ run[i].pc = "awaitEnsureDir"
  /\ \E pc \in {"awaitWriteFile", "failed"} : run' = [run EXCEPT ![i].pc = pc]
  /\ UNCHANGED <<disk, clock, refs>>
  /\ RunLeavesRest

\* Lines 78-108 and, when no request to GitHub is made, on to 221-233.
RunWriteFile(i) ==
  /\ run[i].pc = "awaitWriteFile"
  /\ \/ /\ run' = [run EXCEPT ![i].pc = "failed"]
        /\ UNCHANGED disk
     \/ /\ disk' = [disk EXCEPT ![run[i].dir] = run[i].yaml]
        /\ IF run[i].pr
           THEN run' = [run EXCEPT ![i].branch = BranchNameAt(clock),
                                   ![i].pc = "awaitGetBranch"]
           ELSE run' = [run EXCEPT ![i].outs = PipelineOutputs(run[i].yaml, FALSE, ""),
                                   ![i].pc = "done"]
  /\ UNCHANGED <<clock, refs>>
  /\ RunLeavesRest

\* Lines 217-233.
RunPrFailed(r) == [r EXCEPT !.outs = PipelineOutputs(r.yaml, FALSE, r.branch), !.pc = "done"]

\* Lines 104-109.
RunGetBranch(i) ==
  /\ run[i].pc = "awaitGetBranch"
  /\ \/ run' = [run EXCEPT ![i] = RunPrFailed(@)]
     \/ run' = [run EXCEPT ![i].pc = "awaitCreateRef"]
  /\ UNCHANGED <<disk, clock, refs>>
  /\ RunLeavesRest

\* Lines 111-117.  GitHub creates the reference unless the repository has it.
RunCreateRef(i) ==
  /\ run[i].pc = "awaitCreateRef"
  /\ IF run[i].branch \in refs
     THEN /\ run' = [run EXCEPT ![i] = [RunPrFailed(@) EXCEPT !.refTaken = TRUE]]
          /\ UNCHANGED refs
     ELSE \/ /\ run' = [run EXCEPT ![i] = RunPrFailed(@)]
             /\ UNCHANGED refs
          \/ /\ run' = [run EXCEPT ![i].pc = "awaitGetContent"]
             /\ refs' = refs \cup {run[i].branch}
  /\ UNCHANGED <<disk, clock>>
  /\ RunLeavesRest

\* Lines 119-133.
RunGetContent(i) ==
  /\ run[i].pc = "awaitGetContent"
  /\ run' = [run EXCEPT ![i].pc = "awaitPutFile"]
  /\ UNCHANGED <<disk, clock, refs>>
  /\ RunLeavesRest

\* Lines 135-155.
RunPutFile(i) ==
  /\ run[i].pc = "awaitPutFile"
  /\ \/ run' = [run EXCEPT ![i] = RunPrFailed(@)]
     \/ run' = [run EXCEPT ![i].pc = "awaitCreatePr"]
  /\ UNCHANGED <<disk, clock, refs>>
  /\ RunLeavesRest

\* Lines 158-233.
RunCreatePr(i) ==
  /\ run[i].pc = "awaitCreatePr"
  /\ \/ run' = [run EXCEPT ![i] = RunPrFailed(@)]
     \/ run' = [run EXCEPT ![i].outs = PipelineOutputs(run[i].yaml, TRUE, run[i].branch),
                           ![i].pc = "done"]
  /\ UNCHANGED <<disk, clock, refs>>
  /\ RunLeavesRest

\* Time passes.
Tick ==
  /\ clock < MaxClock
  /\ clock' = clock + 1
  /\ UNCHANGED <<run, disk, refs>>
  /\ RunLeavesRest

\* ------ github:actions:create-workflow (aiGithubActionGeneration.ts lines 16-61)
Workflows == 1..2

\* The workflow files the invocations name, and what they want written.
WorkflowFileNames == {"ci.yml", "new.yml"}
WorkflowContents == {"A", "B"}

\* getContent answers 404 for such a path.
NotFound == "404"

\* Lines 27 and 50: sha is undefined and left out of the request.
NoSha == << >>

\* The sha GitHub reports for a file: the hash of its blob.
BlobSha(content) == <<"sha", content>>

NoWorkflow ==
  [pc |-> "idle", workflowFileName |-> "", workflowContent |-> "", sha |-> NoSha,
   existing |-> "none", write |-> "none", outs |-> << >>]

\* ci.yml is in the repository, new.yml is not.
InitWorkflows ==
  /\ cw = [i \in Workflows |-> NoWorkflow]
  /\ remote = [f \in WorkflowFileNames |-> IF f = "ci.yml" THEN "old" ELSE NotFound]

WorkflowLeavesRest == UNCHANGED <<genVars, handlerVars, templateVars, detectVars, runVars>>

\* Lines 17-33: the input is read and getContent is sent.
WorkflowStart(i) ==
  /\ cw[i].pc = "idle"
  /\ \E name \in WorkflowFileNames, content \in WorkflowContents :
       cw' = [cw EXCEPT ![i].workflowFileName = name, ![i].workflowContent = content,
                        ![i].pc = "awaitGetContent"]
  /\ UNCHANGED remote
  /\ WorkflowLeavesRest

\* Variant of WorkflowGetContent: the existence check and the write are one request,
\* made on the file as it is at that moment.
WorkflowGetContent_WithWrite(i) ==
  /\ cw[i].pc = "awaitGetContent"
  /\ cw' = [cw EXCEPT ![i].sha = IF remote[cw[i].workflowFileName] = NotFound THEN NoSha
                                 ELSE BlobSha(remote[cw[i].workflowFileName]),
                      ![i].existing = IF remote[cw[i].workflowFileName] = NotFound
                                      THEN "notFound" ELSE "found",
                      ![i].write = "current",
                      ![i].outs = <<Output("workflowUrl", cw[i].workflowFileName)>>,
                      ![i].pc = "done"]
  /\ remote' = [remote EXCEPT ![cw[i].workflowFileName] = cw[i].workflowContent]
  /\ WorkflowLeavesRest

\* Lines 28-51: getContent came back.  With the file's data the sha is kept; on a
\* rejection, because the file is not there or because the request failed, the catch
\* block leaves sha undefined.  createOrUpdateFileContents is sent next.
WorkflowGetContent(i) ==
  /\ cw[i].pc = "awaitGetContent"
  /\ \/ /\ remote[cw[i].workflowFileName] # NotFound
        /\ cw' = [cw EXCEPT ![i].sha = BlobSha(remote[cw[i].workflowFileName]),
                            ![i].existing = "found", ![i].pc = "awaitPut"]
     \/ /\ remote[cw[i].workflowFileName] = NotFound
        /\ cw' = [cw EXCEPT ![i].sha = NoSha, ![i].existing = "notFound",
                            ![i].pc = "awaitPut"]
     \/ cw' = [cw EXCEPT ![i].sha = NoSha, ![i].existing = "failed", ![i].pc = "awaitPut"]
  /\ UNCHANGED remote
  /\ WorkflowLeavesRest

\* The sha a write of this file has to carry for GitHub to accept it: none for a
\* new file, the sha of the blob for a file that is there.
CurrentSha(name) ==
  IF remote[name] = NotFound THEN NoSha ELSE BlobSha(remote[name])

\* Lines 44-60: createOrUpdateFileContents came back.  GitHub writes the file when
\* the request carries the current sha and rejects it otherwise; the request can
\* fail for other reasons too.  On success workflowUrl is emitted, on a rejection
\* the catch block rethrows.
WorkflowPut(i) ==
  /\ cw[i].pc = "awaitPut"
  /\ IF cw[i].sha = CurrentSha(cw[i].workflowFileName)
     THEN \/ /\ remote' = [remote EXCEPT ![cw[i].workflowFileName] = cw[i].workflowContent]
             /\ cw' = [cw EXCEPT ![i].write = "current", ![i].pc = "done",
                                 ![i].outs = <<Output("workflowUrl", cw[i].workflowFileName)>>]
          \/ /\ cw' = [cw EXCEPT ![i].write = "lost", ![i].pc = "failed"]
             /\ UNCHANGED remote
     ELSE /\ cw' = [cw EXCEPT ![i].write = IF cw[i].sha = NoSha THEN "missing" ELSE "stale",
                              ![i].pc = "failed"]
          /\ UNCHANGED remote
  /\ WorkflowLeavesRest

\* ========================================================= specifications
\* The message texts the handler is run on: it passes the YAML on unread.
HandlerApiResponses ==
  ApiEmpties
  \cup ApiTexts({"none", Yaml}, {<<"a">>, <<"a", NL, "a">>, EnvLine(EnvRegion, <<SP>>)})

vars == <<genVars, handlerVars, templateVars, detectVars, runVars, workflowVars>>

Init == InitPipeline /\ InitTemplate /\ InitDetect /\ InitRuns /\ InitWorkflows

\* generatePipelineYAML called on its own, on every response of the bounded set.
NextGenerate ==
  \/ CallGenerate
  \/ ApiRejects
  \/ ApiResolves(AllApiResponses)

SpecGenerate == Init /\ [][NextGenerate]_vars

\* One invocation of ai:generate-pipeline.
NextPipeline ==
  \/ HandlerStart
  \/ ApiRejects
  \/ ApiResolves(HandlerApiResponses)
  \/ HandlerGenerateThrew
  \/ HandlerGenerateReturned
  \/ HandlerEnsureDir
  \/ HandlerWriteFile
  \/ HandlerGetBranch
  \/ HandlerCreateRef
  \/ HandlerGetContent
  \/ HandlerPutFile
  \/ HandlerCreatePr

SpecPipeline == Init /\ [][NextPipeline]_vars

\* One invocation of ai:generate-template.
NextTemplate ==
  \/ TemplateStart
  \/ TemplateSucceeds
  \/ TemplateFallsBack

SpecTemplate == Init /\ [][NextTemplate]_vars

\* One invocation of one of the two actions that call a generative service.
NextEither ==
  \/ tpc = "idle" /\ HandlerStart
  \/ ApiRejects
  \/ ApiResolves(HandlerApiResponses)
  \/ HandlerGenerateThrew
  \/ HandlerGenerateReturned
  \/ HandlerEnsureDir
  \/ HandlerWriteFile
  \/ HandlerGetBranch
  \/ HandlerCreateRef
  \/ HandlerGetContent
  \/ HandlerPutFile
  \/ HandlerCreatePr
  \/ hpc = "idle" /\ TemplateStart
  \/ TemplateSucceeds
  \/ TemplateFallsBack

SpecEither == Init /\ [][NextEither]_vars

\* Two invocations of ai:generate-pipeline side by side, and the clock.
NextRuns ==
  \/ \E i \in Runs :
       \/ RunStart(i)
       \/ RunApiRejects(i)
       \/ RunApiResolves(i)
       \/ RunEnsureDir(i)
       \/ RunWriteFile(i)
       \/ RunGetBranch(i)
       \/ RunCreateRef(i)
       \/ RunGetContent(i)
       \/ RunPutFile(i)
       \/ RunCreatePr(i)
  \/ Tick

SpecRuns == Init /\ [][NextRuns]_vars

\* Two invocations of github:actions:create-workflow side by side.
NextWorkflows ==
  \E i \in Workflows :
    \/ WorkflowStart(i)
    \/ WorkflowGetContent(i)
    \/ WorkflowPut(i)

SpecWorkflows == Init /\ [][NextWorkflows]_vars

\* detectProject on roots that differ in their manifests and marker files.
NextDetect ==
  \/ DetectCall(ManifestRoots)
  \/ DetectProjectRuns

SpecDetect == Init /\ [][NextDetect]_vars

\* detectProject on trees that differ in what getProjectStructure meets.
NextStructure ==
  \/ DetectCall(TreeRoots)
  \/ DetectProjectRuns

SpecStructure == Init /\ [][NextStructure]_vars


\* ================================================================= claims
HandlerFinished == hpc \in {"done", "failed"}

Emitted(outs, n) == {i \in 1..Len(outs) : outs[i].name = n}

\* The message text the service answered with.
RawContent == MessageContent(apiResponse)

\* A line that echoes NAME=<secret> and appends it to $GITHUB_ENV.
SecretExportLine(line) ==
  \E i \in 1..Len(line), j \in 1..Len(line), k \in 1..Len(line), m \in 1..Len(line) :
    /\ i < j /\ j < k /\ k < m
    /\ line[i] = Echo
    /\ line[j] \in {ProjectIdAssign, RegionAssign}
    /\ line[k] \in {SecretProjectId, SecretRegion}
    /\ line[m] = AppendOp
    /\ OccursAt(line, <<Dollar, GithubEnv>>, SkipWs(line, m + 1))

HasSecretExportLine(text) ==
  \E n \in 1..Len(SplitLines(text)) : SecretExportLine(SplitLines(text)[n])

\* ${{ <atom> }} at position i, with any white space inside the braces.
PlaceholderAt(text, atom, i) ==
  /\ OccursAt(text, <<Dollar, LB, LB>>, i)
  /\ \E j \in (i + 3)..Len(text), k \in (i + 4)..Len(text) :
       /\ j < k
       /\ text[j] = atom
       /\ \A x \in (i + 3)..(j - 1) : IsWs(text[x])
       /\ \A x \in (j + 1)..(k - 1) : IsWs(text[x])
       /\ OccursAt(text, <<RB, RB>>, k)

Placeholders(text, atom) == {i \in 1..Len(text) : PlaceholderAt(text, atom, i)}

Occurrences(text, p) == {i \in 1..Len(text) : OccursAt(text, p, i)}

C3_NoSecretExportLine ==
  gpc = "returned" => ~HasSecretExportLine(pipelineYaml)

\* C5: the content generatePipelineYAML returns holds no ${{ env.PROJECT_ID }} and no
\* ${{ env.REGION }} placeholder, with any white space inside the braces; each one
\* left by the earlier steps has become the matching ${{ secrets.GCP_... }} reference.
C5_NoEnvPlaceholder ==
  gpc = "returned" =>
    LET pre == EnforceNoEnvExport(RemoveMarkdownFences(RawContent))
    IN /\ Placeholders(pipelineYaml, EnvProjectId) = {}
       /\ Placeholders(pipelineYaml, EnvRegion) = {}
       /\ Cardinality(Occurrences(pipelineYaml, Ref(SecretProjectId)))
            = Cardinality(Occurrences(pre, Ref(SecretProjectId)))
              + Cardinality(Placeholders(pre, EnvProjectId))
       /\ Cardinality(Occurrences(pipelineYaml, Ref(SecretRegion)))
            = Cardinality(Occurrences(pre, Ref(SecretRegion)))
              + Cardinality(Placeholders(pre, EnvRegion))

\* A response with an env.PROJECT_ID placeholder that is not spelt with one space on
\* each side, and an env.REGION placeholder; both came out as secret references.
C5_Witness ==
  /\ gpc = "returned"
  /\ \E i \in Placeholders(RawContent, EnvProjectId) :
       ~OccursAt(RawContent, Ref(EnvProjectId), i)
  /\ Placeholders(RawContent, EnvRegion) # {}
  /\ Occurrences(pipelineYaml, Ref(SecretProjectId)) # {}
  /\ Occurrences(pipelineYaml, Ref(SecretRegion)) # {}

\* C6: generatePipelineYAML never returns for a response without usable content and
\* never returns the empty string; the handler never writes an empty workflow file.
C6_NeverEmpty ==
  /\ gpc = "returned" =>
       (apiResponse.kind = "content" /\ RawContent # << >> /\ pipelineYaml # << >>)
  /\ workflowFile # NoFile => workflowFile # << >>

\* A workflow text the round trip is claimed for: no white space at either end, no
\* export line, no env placeholder (and no code fence of its own).
PlainWorkflow(text) ==
  /\ text # << >>
  /\ Trim(text) = text
  /\ \A n \in 1..Len(SplitLines(text)) : ~EchoEnvLine(SplitLines(text)[n])
  /\ \A atom \in EnvAtoms : Placeholders(text, atom) = {}
  /\ \A i \in 1..Len(text) : text[i] # FENCE

\* C10: a plain workflow text wrapped in a code fence, bare or tagged yaml or yml,
\* comes back from the post-processing exactly as it was.
C10_FenceRoundTrip ==
  (gpc = "returned" /\ apiResponse.kind = "content"
     /\ apiResponse.msg.tag # "none" /\ PlainWorkflow(apiResponse.msg.body))
  => pipelineYaml = apiResponse.msg.body


\* ------------------------------------------------- ai:generate-template
TemplateNames == {KTemplate, KWorkflow, KFileName, KParameters}

\* The value emitted under the name n (the first, were there several).
OutputValue(outs, n) ==
  outs[CHOOSE i \in Emitted(outs, n) : \A k \in Emitted(outs, n) : i <= k].value

\* The four outputs of the fallback, as the catch block is documented to emit them.
ExpectedFallback(input) ==
  << Output(KTemplate, Str(FallbackTemplate(input))),
     Output(KWorkflow, Str(FallbackWorkflow(input))),
     Output(KFileName, Str(<<input.templateName, ".yml">>)),
     Output(KParameters, Val("arr", << >>, <<Str(<<"resourceName">>)>>)) >>

CleanedText == CleanResponse(tResult.text)

\* The cleaned text holds no JSON object, or none that parses, repaired or not.
NoEnvelopeFound ==
  NoJsonObject(CleanedText) \/ ~ParseWithRepair(JsonCandidate(CleanedText)).ok

\* An envelope was parsed and one of the three required fields is not in it.
EnvelopeLacksField ==
  /\ ~NoEnvelopeFound
  /\ \E key \in {KTemplate, KWorkflow, KFileName} :
       ~Truthy(Lookup(ParseWithRepair(JsonCandidate(CleanedText)).val.items, key))

\* The handler emitted from the parsed envelope, not from the fallback.
EmittedEnvelope == tpc = "done" /\ tOutputs # ExpectedFallback(tInput)

\* C1: whatever the generation call comes back with, the ai:generate-template handler
\* ends without throwing and has emitted each of its four outputs exactly once.
C1_FourOutputsOnce ==
  /\ tpc # "failed"
  /\ tpc = "done" =>
       /\ Len(tOutputs) = 4
       /\ \A n \in TemplateNames : Cardinality(Emitted(tOutputs, n)) = 1

\* An outcome that throws last of all in the try block: a parsed envelope with its
\* three fields, whose templateContent is not a string.
C1_Witness ==
  /\ tpc = "done"
  /\ tResult.kind = "text"
  /\ ~NoEnvelopeFound /\ ~EnvelopeLacksField
  /\ tOutputs = ExpectedFallback(tInput)

RawNewlineOnly(shape) ==
  /\ \/ shape.t = "rawNL" /\ shape.w \in {"plain", "escNL", "export"}
     \/ shape.w = "rawNL" /\ shape.t \in {"plain", "escNL", "dblEscNL"}
  /\ shape.f = "plain" /\ shape.p \in {"absent", "list"}
  /\ ~shape.comma
  /\ shape.wrap \in {"none", "json", "bare", "prose"}

\* C7: an envelope that is valid but for a raw newline inside one string value is
\* repaired and parsed, and its own templateContent, workflowContent and
\* workflowFileName are emitted, not the fallback's.
C7_RawNewlineRepaired ==
  (tpc = "done" /\ tResult.kind = "text" /\ RawNewlineOnly(tResult.shape)) =>
    /\ Emitted(tOutputs, KTemplate) # {}
    /\ OutputValue(tOutputs, KTemplate) = Str(MeantText(tResult.shape.t))
    /\ OutputValue(tOutputs, KWorkflow) = Str(MeantText(tResult.shape.w))
    /\ OutputValue(tOutputs, KFileName) = Str(<<"a">>)

\* C8 (as stated): text without a JSON object, or with one that still does not parse
\* after the repair, comes out whole as plain YAML content, not as the fallback.
C8_PlainYamlResult ==
  (tpc = "done" /\ tResult.kind = "text" /\ NoEnvelopeFound) =>
    /\ tOutputs # ExpectedFallback(tInput)
    /\ \E i \in 1..Len(tOutputs) : tOutputs[i].value = Str(CleanedText)

\* C8 (amended): text without a JSON object, or with one that still does not parse
\* after the repair, makes ai:generate-template emit the fallback: all four outputs are
\* the fallback's and the cleaned text is emitted nowhere.
C8_NoEnvelopeFallsBack ==
  (tpc = "done" /\ tResult.kind = "text" /\ NoEnvelopeFound) =>
    /\ tOutputs = ExpectedFallback(tInput)
    /\ \A i \in 1..Len(tOutputs) : tOutputs[i].value # Str(CleanedText)

\* A JSON object was found and did not parse, before or after the repair.
C8_Witness ==
  /\ tpc = "done" /\ tResult.kind = "text"
  /\ ~NoJsonObject(CleanedText)
  /\ NoEnvelopeFound
  /\ tResult.shape.w = "rawNL"

\* C9: a parsed envelope that lacks templateContent, workflowContent or
\* workflowFileName contributes nothing: all four outputs are the fallback's, with
\* workflowFileName = <templateName>.yml and parameters = [resourceName].
C9_MissingFieldAllFallback ==
  (tpc = "done" /\ tResult.kind = "text" /\ EnvelopeLacksField) =>
    /\ tOutputs = ExpectedFallback(tInput)
    /\ OutputValue(tOutputs, KFileName) = Str(<<tInput.templateName, ".yml">>)
    /\ OutputValue(tOutputs, KParameters).items = <<Str(<<"resourceName">>)>>

\* The envelope has its two contents and its parameters, and no workflowFileName.
C9_Witness ==
  /\ tpc = "done" /\ tResult.kind = "text" /\ EnvelopeLacksField
  /\ tResult.shape.t = "plain" /\ tResult.shape.w = "plain"
  /\ tResult.shape.f = "absent" /\ tResult.shape.p = "list"


\* ------------------------------------------------------------ detectProject
Returned == dpc = "returned"

Profile == summaryObj.profile

\* The marker files of the n-th project type.
HasMarker(files, n) ==
  CASE n = 1 -> Includes(files, "package.json")
    [] n = 2 -> \/ Includes(files, "requirements.txt")
                \/ Includes(files, "pyproject.toml")
                \/ Includes(files, "setup.py")
    [] n = 3 -> \E i \in 1..Len(files) :
                  EndsWith(files[i], ".csproj") \/ EndsWith(files[i], ".sln")
    [] n = 4 -> \/ Includes(files, "pom.xml")
                \/ Includes(files, "build.gradle")
                \/ Includes(files, "build.gradle.kts")
    [] n = 5 -> Includes(files, "go.mod")

MarkerTypes == <<"nodejs", "python", ".net", "java", "go">>

Markers(files) == {n \in 1..Len(MarkerTypes) : HasMarker(files, n)}

\* C11: the type of a returned profile is the type of the first marker present among
\* the top-level files, in the order package.json, requirements.txt / pyproject.toml /
\* setup.py, *.csproj / *.sln, pom.xml / build.gradle[.kts], go.mod; it is unknown when
\* no marker is present.
C11_FirstMarkerWins ==
  Returned =>
    LET present == Markers(Files(repoPath))
    IN IF present = {} THEN Profile.type = "unknown"
       ELSE \E n \in present :
              /\ \A m \in present : n <= m
              /\ Profile.type = MarkerTypes[n]

\* Markers of two types are present, and the later one in the order is Java's.
C11_Witness ==
  /\ Returned
  /\ Markers(Files(repoPath)) = {3, 4}
  /\ Profile.type = ".net"

\* C12, as stated: the type of a returned profile is one of nodejs, python, dotnet,
\* java, go, unknown.
C12_ClosedSetDotnet ==
  Returned => Profile.type \in {"nodejs", "python", "dotnet", "java", "go", "unknown"}

\* C12, amended: the type of a returned profile is one of the six values nodejs,
\* python, .net, java, go, unknown.
C12_ClosedSet ==
  Returned => Profile.type \in {"nodejs", "python", ".net", "java", "go", "unknown"}

\* A root with a *.csproj or *.sln file and no Node.js or Python marker was profiled.
C12_Witness ==
  /\ Returned
  /\ HasMarker(Files(repoPath), 3)
  /\ Profile.type \notin {"nodejs", "python", "java", "go", "unknown"}

\* C13: detectProject throws only where the root directory cannot be listed; a
\* manifest that cannot be read or parsed never makes it throw.
C13_ThrowsOnlyOnRoot ==
  dpc = "thrown" => ~repoPath.readable


\* The operators a requirements.txt line puts between name and version.
VersionOperators == {<<"=", "=">>, <<">", "=">>, <<"<", "=">>, <<">">>, <<"<">>}

\* requirements.txt is the one line name<op>2.3.0 and the root was profiled as python.
OneRequirement(name, op) ==
  /\ Returned
  /\ Profile.type = "python"
  /\ Includes(Files(repoPath), "requirements.txt")
  /\ ReadFileSync(repoPath, "requirements.txt").text = Requirement(name, op)

\* C14: a requirements.txt line name<op>version, with op one of ==, >=, <=, >, <,
\* is recorded as dependencies[name] = version; Flask==2.3.0 gives framework Flask
\* and dependencies[Flask] = 2.3.0.
C14_VersionRecorded ==
  \A name \in {"Flask", "pytest"}, op \in VersionOperators :
    OneRequirement(name, op) =>
      /\ Prop(Profile.dependencies, name) = Str(<<"2.3.0">>)
      /\ name = "Flask" => Profile.framework = "Flask"

\* A package is declared in dependencies or in devDependencies of the profile.
DeclaredAnywhere(name) ==
  Declared(Profile.dependencies, name) \/ Declared(Profile.devDependencies, name)

FrameworkSignatures ==
  << <<"react", "React">>, <<"vue", "Vue.js">>, <<"angular", "Angular">>,
     <<"next", "Next.js">>, <<"express", "Express.js">>, <<"nestjs", "NestJS">>,
     <<"@backstage/core-components", "Backstage">> >>

BuildToolLabels == <<"Webpack", "Vite", "Rollup", "Parcel">>

BuildToolPresent(n) ==
  CASE n = 1 -> Includes(Profile.files, "webpack.config.js")
    [] n = 2 -> \/ Includes(Profile.files, "vite.config.js")
                \/ Includes(Profile.files, "vite.config.ts")
    [] n = 3 -> Includes(Profile.files, "rollup.config.js")
    [] n = 4 -> DeclaredAnywhere("@parcel/core")

\* The label of the first of the numbered signatures that is present, or none.
FirstLabel(present, labels) ==
  IF present = {} THEN ""
  ELSE labels[CHOOSE n \in present : \A m \in present : n <= m]

\* C15: for a nodejs profile, framework is the label of the first of react, vue,
\* angular, next, express, nestjs, @backstage/core-components declared in
\* dependencies or devDependencies, and buildTool the first of Webpack, Vite, Rollup,
\* Parcel whose signature is present; each is empty when no signature is present.
C15_FirstSignature ==
  (Returned /\ Profile.type = "nodejs") =>
    /\ Profile.framework =
         FirstLabel({n \in 1..Len(FrameworkSignatures) :
                       DeclaredAnywhere(FrameworkSignatures[n][1])},
                    [n \in 1..Len(FrameworkSignatures) |-> FrameworkSignatures[n][2]])
    /\ Profile.buildTool =
         FirstLabel({n \in 1..Len(BuildToolLabels) : BuildToolPresent(n)}, BuildToolLabels)

NodeFrameworkLabels ==
  {FrameworkSignatures[n][2] : n \in 1..Len(FrameworkSignatures)}

PythonFrameworkLabels == {"Django", "Flask", "FastAPI", "Streamlit"}

PythonBuildToolLabels == {"Poetry/setuptools", "setuptools", "Pipenv"}

\* Every name declared in deps occurs in the text of the file.
DeclaredIn(deps, text) ==
  \A i \in 1..Len(deps.items) :
    \E k \in 1..Len(text) : <<text[k]>> = deps.items[i].key

\* C16: framework, buildTool and dependencies of a returned profile come from the
\* branch of its type only: a nodejs profile has a Node.js label or none, and the
\* dependencies of package.json alone, whatever requirements.txt lists; a python
\* profile has a Python label or none; the other types declare no dependencies; and
\* unknown has empty framework and buildTool.
C16_BranchOnly ==
  Returned =>
    /\ Profile.type = "nodejs" =>
         /\ Profile.framework \in NodeFrameworkLabels \cup {""}
         /\ Profile.buildTool \in {BuildToolLabels[n] : n \in 1..4} \cup {""}
         /\ DeclaredIn(Profile.dependencies, ReadFileSync(repoPath, "package.json").text)
    /\ Profile.type = "python" =>
         /\ Profile.framework \in PythonFrameworkLabels \cup {""}
         /\ Profile.buildTool \in PythonBuildToolLabels \cup {""}
         /\ Profile.devDependencies = EmptyObject
    /\ Profile.type \notin {"nodejs", "python"} =>
         /\ Profile.dependencies = EmptyObject
         /\ Profile.devDependencies = EmptyObject
    /\ Profile.type = "unknown" => Profile.framework = "" /\ Profile.buildTool = ""

\* package.json stands beside a requirements.txt that lists Flask.
C16_Witness ==
  /\ Returned
  /\ Profile.type = "nodejs"
  /\ Includes(Profile.files, "requirements.txt")
  /\ Contains(ReadFileSync(repoPath, "requirements.txt").text, <<"Flask">>)
  /\ Profile.framework # "Flask"
  /\ Profile.dependencies # EmptyObject

\* A name that reads as a test file or test directory.
TestName(entry) ==
  \/ NameIncludes(entry, "test")
  \/ NameIncludes(entry, "spec")
  \/ Contains(entry, <<"__", "test", "s__">>)

\* C17: hasTests is true exactly when an entry of files or of structure contains
\* "test", "spec" or "__tests__", or one of the test packages is declared in
\* dependencies or devDependencies.
C17_TestsAnywhere ==
  Returned =>
    (Profile.hasTests <=>
       \/ \E i \in 1..Len(Profile.files) : TestName(Profile.files[i])
       \/ \E i \in 1..Len(Profile.structure) : TestName(Profile.structure[i])
       \/ \E dep \in TestDeps : DeclaredAnywhere(dep))


\* ------------------------------------------------------- getProjectStructure
\* The names a path of structure is made of: "a/c/" is <<a, c>>.
Components(path) == SelectSeq(SplitOn(path, {"/"}), LAMBDA name : name # << >>)

\* The structure entry of a top-level item.
TopLevelEntry(item) == IF item.kind = "dir" THEN item.name \o <<"/">> ELSE item.name

Listed(path) == \E k \in 1..Len(Profile.structure) : Profile.structure[k] = path

\* C18: where stat-ing or reading one entry fails during the traversal,
\* detectProject still returns, and structure lists every other entry that is not
\* hidden: the siblings before and after the failing one.
C18_SiblingsKept ==
  /\ repoPath.readable => dpc # "thrown"
  /\ Returned =>
       \A i \in 1..Len(repoPath.items) :
         LET item == repoPath.items[i]
         IN (~Skipped(item.name) /\ item.kind # "broken" /\ item.readable)
              => Listed(TopLevelEntry(item))

AllowedHidden == {<<".", "github">>, <<".", "gitignore">>, <<".", "env">>}

\* C19: a dot-prefixed name appears in a path of structure only if it is .github,
\* .gitignore or .env; every other hidden entry is left out with all below it.
C19_HiddenAllowList ==
  Returned =>
    \A k \in 1..Len(Profile.structure) :
      LET names == Components(Profile.structure[k])
      IN \A n \in 1..Len(names) : names[n][1] = "." => names[n] \in AllowedHidden

\* The entry of the tree that a path of names leads to.
RECURSIVE Resolve(_, _)
Resolve(dir, names) ==
  IF names = << >> THEN dir
  ELSE Resolve(dir.items[CHOOSE i \in 1..Len(dir.items) : dir.items[i].name = Head(names)],
               Tail(names))

\* C20: every entry of structure is a path at most two levels below the root,
\* ending with "/" exactly when it names a directory, and no directory two levels
\* or more below the root is handed to readdirSync.
C20_DepthBounded ==
  /\ \A path \in summaryObj.reads : Len(Components(path)) <= 1
  /\ Returned =>
       \A k \in 1..Len(Profile.structure) :
         LET entry == Profile.structure[k]
         IN /\ Len(Components(entry)) \in 1..2
            /\ entry[Len(entry)] = "/" <=> Resolve(repoPath, Components(entry)).kind = "dir"

\* The tree is three levels deep: a listed second-level directory has entries.
C20_Witness ==
  /\ Returned
  /\ \E k \in 1..Len(Profile.structure) :
       LET names == Components(Profile.structure[k])
       IN /\ Len(names) = 2
          /\ Resolve(repoPath, names).kind = "dir"
          /\ Resolve(repoPath, names).items # << >>


\* ---------------------------------------------------------- buildSystemPrompt
\* A phrase is an atom of some line of the prompt.
Mentions(prompt, phrases) ==
  \E i \in 1..Len(prompt) : \E k \in 1..Len(prompt[i]) : prompt[i][k] \in phrases

\* The handler profiled a Node.js project and sent the request for it.
NodePromptSent ==
  /\ hpc \notin {"idle", "failed"}
  /\ dpc = "returned"
  /\ Profile.type = "nodejs"
  /\ ~Includes(Profile.files, "yarn.lock")
  /\ ~Includes(Profile.files, "pnpm-lock.yaml")

\* C21: for a nodejs profile without a lock file the system prompt instructs
\* npm install and the omission of dependency caching; with package-lock.json it
\* instructs npm ci and permits caching.
C21_InstallGuidance ==
  NodePromptSent =>
    IF Includes(Profile.files, "package-lock.json")
    THEN Mentions(systemPrompt, {"npm ci"})
    ELSE /\ Mentions(systemPrompt, {"npm install"})
         /\ Mentions(systemPrompt, {"cache", "Cache", "CACHE", "caching", "Caching"})
         /\ ~Mentions(systemPrompt, {"npm ci"})


\* ------------------------------------------------- ai:generate-template, fallback
\* The catch block ran in this invocation.
FellBack == tpc = "done" /\ TemplateTry(tResult).threw

\* The value the catch block emitted under the name n: the last one of that name.
FallbackValue(n) ==
  tOutputs[CHOOSE i \in Emitted(tOutputs, n) : \A k \in Emitted(tOutputs, n) : k <= i].value

\* C22: the fallback templateContent and workflowContent are emitted as documents of
\* one YAML line per entry, the lines separated by newline characters as on the
\* success path after un-escaping, and no two-character backslash-n stands in for a
\* line break.
C22_FallbackLineBreaks ==
  FellBack =>
    \A n \in {KTemplate, KWorkflow} :
      /\ ~Contains(FallbackValue(n).s, <<BS, LetterN>>)
      /\ UnescapeNewlinesTabs(FallbackValue(n).s) = FallbackValue(n).s
      /\ Len(SplitLines(FallbackValue(n).s)) > 1


\* What an invocation with this input emits when the model comes back with this result
\* and the try block throws on it (lines 88-225).
EmitsOnFailure(input, result) == TemplateTry(result).outs \o FallbackOutputs(input)

\* One failing outcome of each kind: the call rejects, the response is blocked, the
\* text is empty or one atom without a JSON object.
OtherFailures ==
  {r \in TemplateResults : r.shape = FreeShape /\ Len(r.text) <= 1 /\ TemplateTry(r).threw}

\* C23: the fallback outputs are a function of the five inputs only.  An invocation
\* that fell back emitted exactly what any other failing invocation with the same
\* five values emits, whatever the model returned to either and whichever failure
\* led either to the catch block.
C23_FallbackOfInputsOnly ==
  FellBack =>
    \A other \in OtherFailures : tOutputs = EmitsOnFailure(tInput, other)

\* The model answered with text, an envelope was parsed from it and a field was
\* missing; the compared invocations failed without any envelope.
C23_Witness ==
  /\ FellBack /\ tResult.kind = "text" /\ EnvelopeLacksField
  /\ tResult.shape.t = "escNL" /\ tResult.shape.w = "absent"
  /\ \E other \in OtherFailures : other.kind = "rejected"
  /\ \E other \in OtherFailures : other.kind = "text"


\* ------------------------------------------------- ai:generate-pipeline, the root
\* The handler was invoked on a root that fs.readdirSync cannot read.
InaccessibleRoot == hpc # "idle" /\ ~repoPath.readable

\* C24: on a repository root that cannot be read the handler fails before any prompt
\* is built: the generation service is not called, no workflow file is written, no
\* GitHub request is made and nothing is emitted.
C24_InaccessibleRootAborts ==
  InaccessibleRoot =>
    /\ hpc = "failed"
    /\ systemPrompt = << >>
    /\ gpc = "idle" /\ apiCalls = 0
    /\ workflowFile = NoFile
    /\ githubCalls = << >>
    /\ hOutputs = << >>

\* The invocation asked for a pull request with a token and a repository, and its
\* root cannot be read.
C24_Witness ==
  /\ InaccessibleRoot /\ dpc = "thrown"
  /\ hInput.createPullRequest /\ hInput.ownerRepo /\ hInput.githubToken


\* ------------------------------------------------- ai:generate-pipeline, outputs
\* C25: the branchName output is emitted only when a pull request was created: an
\* invocation whose PR creation was skipped, or failed at any step, emits no
\* branchName.
C25_BranchNameOnlyWithPr ==
  (hpc = "done" /\ Emitted(hOutputs, "branchName") # {}) =>
    /\ Emitted(hOutputs, "pullRequestCreated") # {}
    /\ OutputValue(hOutputs, "pullRequestCreated") = <<TRUE>>


\* ------------------------------------------------- calls of the generative service
\* The invocation, of either action, has ended.
InvocationEnded == hpc \in {"done", "failed"} \/ tpc = "done"

\* C27: in one invocation of ai:generate-pipeline or ai:generate-template the
\* generative service is called at most once, and an invocation whose call failed
\* ends having made that one call and no other.
C27_CalledAtMostOnce ==
  /\ apiCalls + modelCalls <= 1
  /\ (hpc # "idle" /\ gpc = "thrown") => apiCalls = 1
  /\ (tpc = "done" /\ tResult.kind = "rejected") => modelCalls = 1
  /\ (InvocationEnded /\ dpc # "thrown") => apiCalls + modelCalls = 1

\* The request of ai:generate-pipeline was rejected and the invocation has ended.
C27_Witness == hpc = "failed" /\ gpc = "thrown" /\ apiCalls = 1


\* ------------------------------------------- invocations running side by side
\* The string generatePipelineYAML returns for the response this invocation got.
OwnYaml(r) == PostProcess(MessageContent(r.resp))

\* The outputs an invocation can end with when it runs by itself on its input and
\* its response: without a pull request one sequence; with one, a branch named after
\* the time and either outcome of the requests to GitHub.
AloneOutputs(r) ==
  IF r.pr
  THEN {PipelineOutputs(OwnYaml(r), created, BranchNameAt(now)) :
          created \in BOOLEAN, now \in 0..MaxClock}
  ELSE {PipelineOutputs(OwnYaml(r), FALSE, "")}

\* The invocation has passed its fs.writeFile.
Wrote(r) ==
  r.pc \in {"awaitGetBranch", "awaitCreateRef", "awaitGetContent", "awaitPutFile",
            "awaitCreatePr", "done"}

C29_BranchNamesDistinct ==
  /\ \A i \in Runs : \A j \in Runs \ {i} :
       (run[i].branch # "" /\ run[j].branch # "") => run[i].branch # run[j].branch
  /\ \A i \in Runs : ~run[i].refTaken

\* C28: two invocations of github:actions:create-workflow that target the same file,
\* each with an existence check that was answered, both complete: neither write
\* carries a stale or a missing sha, and the file ends with the content of one of
\* them.
C28_BothWritesAccepted ==
  \A i \in Workflows : \A j \in Workflows \ {i} :
    ( /\ cw[i].workflowFileName = cw[j].workflowFileName
      /\ cw[i].existing \in {"found", "notFound"} /\ cw[j].existing \in {"found", "notFound"}
      /\ cw[i].pc \in {"done", "failed"} /\ cw[j].pc \in {"done", "failed"}
      /\ cw[i].write # "lost" /\ cw[j].write # "lost" ) =>
        /\ cw[i].pc = "done" /\ cw[i].write = "current"
        /\ remote[cw[i].workflowFileName] \in {cw[i].workflowContent, cw[j].workflowContent}

=============================================================================
